---- MODULE Spec2Model ----
(***************************************************************************)
(* Key handlers of prompt_toolkit (src/prompt_toolkit/inputstream_handler  *)
(* .py): the common InputStreamHandler, the Emacs handler and the modal Vi *)
(* handler, driving an edit buffer (prompt_toolkit.line.Line).             *)
(*                                                                         *)
(* Strings are sequences of one-character strings; a cursor position is a  *)
(* 0-based offset as in Python, so the character at offset p of text t is  *)
(* t[p + 1].                                                               *)
(***************************************************************************)
EXTENDS Integers, Sequences, FiniteSets, TLC

VARIABLES
    handler_cls,             \* the class of the handler: Vi or Emacs
    line,                    \* self._line: the Line (record, see NewLine)
    second_tab,              \* InputStreamHandler._second_tab
    last_call,               \* InputStreamHandler._last_call
    arg_count,               \* InputStreamHandler.__arg_count: <<>> is None, <<n>> is n
    escape_pressed,          \* EmacsInputStreamHandler._escape_pressed
    ctrl_x_pressed,          \* EmacsInputStreamHandler._ctrl_x_pressed
    vi_mode,                 \* ViInputStreamHandler._vi_mode
    current_handles,         \* ViInputStreamHandler._current_handles
    one_character_callback,  \* ViInputStreamHandler._one_character_callback
    keys_read,               \* how many key events the handler has been called with
    fired,                   \* navigation-table keys whose handler the last event called
    raised,                  \* the signal the last event raised, or "none"
    tab_call,                \* what tab() called in the last event: <<>> for nothing,
                             \* <<"complete", result>> or <<"list_completions">>
    session,                 \* the log of the session where one is kept: the events the
                             \* handler was called with and the text and cursor each left
    returned,                \* how shortcuts.get_input ended: <<>> while it has not,
                             \* <<"return", value>> or <<"raise", signal>>
    renderer,                \* the Renderer: its _lines_in_use and _cursor_line
    screen,                  \* the Screen the last render built
    render_context,          \* the RenderContext of the last render
    terminal,                \* the terminal: what the last render wrote to it, and its
                             \* cursor, counted from the first row of the last paint
    renders,                 \* how many times render() has been called
    history_file,            \* the file of the FileHistory: None while it does not exist,
                             \* <<its characters>> once it does
    file_history,            \* FileHistory.strings of the FileHistory that appends
    reloaded,                \* None, or <<strings>> of a FileHistory constructed on the
                             \* file afterwards
    paste_mode,              \* PythonLine.paste_mode
    multiline                \* PythonLine.multiline

handler_vars ==
    <<handler_cls, line, second_tab, last_call, arg_count, escape_pressed, ctrl_x_pressed,
      vi_mode, current_handles, one_character_callback, keys_read, fired, raised, tab_call,
      session, returned>>

renderer_vars == <<renderer, screen, render_context, terminal, renders>>

history_vars == <<history_file, file_history, reloaded>>

python_vars == <<paste_mode, multiline>>

vars == <<handler_vars, renderer_vars, history_vars, python_vars>>

-----------------------------------------------------------------------------
(* Bounds of the model *)

\* Longest text an event may grow the buffer to.
MaxLen == 3
\* Deepest undo stack an event may leave behind.
MaxUndo == 2
\* Largest numeric argument typed in the specifications that edit the text.
MaxArg == 3
\* Longest text a specification starts from.
MaxScenarioLen == 18
\* Longest incremental-search pattern typed.
MaxPattern == 1
\* Most key events the input stream delivers.
MaxEvents == 4
\* Most key events delivered when every key is tried.
MaxKeys == 3
\* Most key events delivered when counts are typed.
MaxCountEvents == 9
\* Largest numeric argument typed into the Emacs handler, and most key events
\* delivered to it.
MaxEmacsArg == 12
MaxEmacsEvents == 4
\* Longest text typed, and most key events delivered, when typing is undone.
MaxTypedLen == 5
MaxUndoEvents == 6
\* Most key events delivered when completions are asked for.
MaxTabEvents == 4
\* SpecRender: the length of a rendered text, and the renders of a session
MaxRenderLen == 2
MaxRenders == 2
\* SpecFile: the length of a string appended to the FileHistory, and the appends
MaxStringLen == 2
MaxAppends == 2
\* SpecPython: the length of a text the PythonLine starts from, and the calls made
MaxPythonLen == 3
MaxPythonEvents == 2
\* SpecBrackets: the brackets of a text
MaxBrackets == 4
\* SpecBrowse: longest text, and the key events of a session
MaxBrowseLen == 5
MaxBrowseEvents == 4
\* SpecSearch: longest text, longest search pattern, and the key events of a session
MaxSearchLen == 6
MaxSearchPattern == 2
MaxSearchEvents == 4
\* SpecRestore: longest text, deepest undo stack, and the key events of a session
MaxRestoreLen == 4
MaxSnapshots == 3
MaxRestoreEvents == 5
\* SpecInput: longest text, and the key events get_input reads
MaxInputLen == 2
MaxInputEvents == 4

\* SpecRepl: longest text the PythonLine starts from, longest text it may reach, and the
\* key events the Python handler reads
MaxReplLen == 3
MaxReplText == 24
MaxReplEvents == 3

-----------------------------------------------------------------------------
(* Python helpers *)

None == <<>>
Some(n) == <<n>>
IsNone(x) == x = <<>>

Min(S) == CHOOSE x \in S : \A y \in S : x <= y
Max(S) == CHOOSE x \in S : \A y \in S : x >= y

\* s[a:b] of Python for 0 <= a, with the end clipped to the string.
Slice(s, a, b) == IF a >= b \/ a >= Len(s) THEN <<>>
                  ELSE SubSeq(s, a + 1, IF b > Len(s) THEN Len(s) ELSE b)

\* s * n of Python for a string s.
RECURSIVE StrTimes(_, _)
StrTimes(s, n) == IF n <= 0 THEN <<>> ELSE s \o StrTimes(s, n - 1)

IsSpace(c) == c \in {" ", "\n"}

\* The decimal digits of a non-negative integer, as str(n) gives them.
DigitChars == <<"0", "1", "2", "3", "4", "5", "6", "7", "8", "9">>
DigitValue(c) == CHOOSE d \in 0..9 : DigitChars[d + 1] = c
IsDigit(c) == \E d \in 0..9 : DigitChars[d + 1] = c

LowerChars == <<"a", "e", "f", "h", "n", "o", "r", "t", "u", "w">>
UpperChars == <<"A", "E", "F", "H", "N", "O", "R", "T", "U", "W">>
IsLower(c) == \E i \in 1..Len(LowerChars) : LowerChars[i] = c
IsUpper(c) == \E i \in 1..Len(UpperChars) : UpperChars[i] = c
\* c.upper() and c.lower() of a one-character string.
Upper(c) == IF IsLower(c) THEN UpperChars[CHOOSE i \in 1..Len(LowerChars) : LowerChars[i] = c]
            ELSE c
Lower(c) == IF IsUpper(c) THEN LowerChars[CHOOSE i \in 1..Len(UpperChars) : UpperChars[i] = c]
            ELSE c

-----------------------------------------------------------------------------
(* Document: the view over (text, cursor_position) of a Line *)

CHARACTERS == "CHARACTERS"
LINES == "LINES"

\* ClipboardData(text, type=CHARACTERS)
ClipboardData(text, type) == [data |-> text, type |-> type]

FORWARD == "FORWARD"
BACKWARD == "BACKWARD"

\* The Line as its reset leaves it, holding `text` with the cursor at `cp` and
\* bound to the History `history`.
NewLine(text, cp, history) ==
    [text |-> text, cursor_position |-> cp, undo_stack |-> <<>>,
     clipboard |-> ClipboardData(<<>>, CHARACTERS),
     history |-> history, history_index |-> None, history_prefix |-> <<>>,
     original_text |-> <<>>,
     isearch_state |-> None, completion_state |-> None, arg_prompt_text |-> None]

StartsWith(s, p) == Len(p) <= Len(s) /\ Slice(s, 0, Len(p)) = p
\* Offsets at which p occurs in s.
Occurrences(s, p) == {i \in 0..(Len(s) - Len(p)) : Slice(s, i, i + Len(p)) = p}

text_before_cursor(l) == Slice(l.text, 0, l.cursor_position)
text_after_cursor(l) == Slice(l.text, l.cursor_position, Len(l.text))
current_char(l) == IF l.cursor_position < Len(l.text) THEN l.text[l.cursor_position + 1] ELSE ""
cursor_at_the_end(l) == l.cursor_position = Len(l.text)

\* Offset of the first character of the line that holds offset p, and of its end
\* (the offset of its newline, or len(text) on the last line).
LineStartAt(t, p) == Max({0} \cup {q + 1 : q \in {r \in 0..(p - 1) : t[r + 1] = "\n"}})
LineEndAt(t, p) == Min({Len(t)} \cup {q \in p..(Len(t) - 1) : t[q + 1] = "\n"})
LineStart(l) == LineStartAt(l.text, l.cursor_position)
LineEnd(l) == LineEndAt(l.text, l.cursor_position)

cursor_position_row(l) == Cardinality({q \in 0..(l.cursor_position - 1) : l.text[q + 1] = "\n"})
cursor_position_col(l) == l.cursor_position - LineStart(l)
current_line(l) == Slice(l.text, LineStart(l), LineEnd(l))
current_line_before_cursor(l) == Slice(l.text, LineStart(l), l.cursor_position)
current_line_after_cursor(l) == Slice(l.text, l.cursor_position, LineEnd(l))

\* document.lines: the text split on "\n".
RECURSIVE SplitLines(_)
SplitLines(t) ==
    LET e == LineEndAt(t, 0)
    IN  IF e = Len(t) THEN <<t>>
        ELSE <<Slice(t, 0, e)>> \o SplitLines(Slice(t, e + 1, Len(t)))

\* sep.join(parts)
RECURSIVE Join(_, _)
Join(sep, parts) ==
    IF Len(parts) = 0 THEN <<>>
    ELSE IF Len(parts) = 1 THEN parts[1]
    ELSE parts[1] \o sep \o Join(sep, Tail(parts))

\* A word is a maximal run of non-whitespace. Offsets of: the start of the next
\* word after the cursor, the start of the word before the cursor, the last
\* character of the word that ends after the cursor; -1 when there is none.
WordStarts(t) == {p \in 0..(Len(t) - 1) : ~IsSpace(t[p + 1]) /\ (p = 0 \/ IsSpace(t[p]))}
WordEnds(t) == {p \in 0..(Len(t) - 1) :
                   ~IsSpace(t[p + 1]) /\ (p = Len(t) - 1 \/ IsSpace(t[p + 2]))}
find_next_word_beginning(l) ==
    LET S == {p \in WordStarts(l.text) : p > l.cursor_position}
    IN  IF S = {} THEN -1 ELSE Min(S)
find_previous_word_beginning(l) ==
    LET S == {p \in WordStarts(l.text) : p < l.cursor_position}
    IN  IF S = {} THEN -1 ELSE Max(S)
find_end_of_word(l) ==
    LET S == {p \in WordEnds(l.text) : p > l.cursor_position}
    IN  IF S = {} THEN -1 ELSE Min(S)

\* The substring spanning the next n words from the cursor; with
\* consume_nonword_before the whitespace before the first word is part of it.
get_following_words(l, n, consume_nonword_before) ==
    LET cp == l.cursor_position
        first == IF consume_nonword_before \/ cp >= Len(l.text) \/ ~IsSpace(l.text[cp + 1])
                 THEN cp ELSE Len(l.text)
        ends == {p \in WordEnds(l.text) : p >= cp}
        upto == {p \in ends : Cardinality({q \in ends : q <= p}) = n}
        stop == IF ends = {} \/ n <= 0 THEN cp
                ELSE IF upto = {} THEN Max(ends) + 1 ELSE Min(upto) + 1
    IN  IF first > cp THEN <<>> ELSE Slice(l.text, cp, stop)

-----------------------------------------------------------------------------
(* Line: the edit buffer.  Every operation maps a Line to the Line after it. *)

in_isearch(l) == ~IsNone(l.isearch_state)
in_completion(l) == ~IsNone(l.completion_state)

\* Every operation but the search and completion ones leaves incremental search
\* (keeping the match) and the completion state.
Leave(l) == [l EXCEPT !.isearch_state = None, !.completion_state = None]

SetCursor(l, cp) == [Leave(l) EXCEPT !.cursor_position = cp]

\* An edit: new text and cursor; history browsing starts afresh after it.
SetText(l, t, cp) ==
    [Leave(l) EXCEPT !.text = t, !.cursor_position = cp, !.history_index = None,
                     !.history_prefix = <<>>, !.original_text = <<>>]

\* Push the current (text, cursor_position) on the undo stack.
SaveToUndo(l) == [l EXCEPT !.undo_stack = Append(@, <<l.text, l.cursor_position>>)]

\* Incremental search: show the nearest history entry that holds the pattern, at or
\* (strict) beyond the entry shown now, in the direction of the search.
ISearchJump(l, st, strict) ==
    LET H == l.history
        hit == {i \in 1..Len(H) : Occurrences(H[i], st.pattern) # {}}
        S == IF st.direction = BACKWARD
             THEN {i \in hit : IF strict THEN i < st.index ELSE i <= st.index}
             ELSE {i \in hit : IF strict THEN i > st.index ELSE i >= st.index}
        i == IF st.direction = BACKWARD THEN Max(S) ELSE Min(S)
    IN  IF S = {} THEN [l EXCEPT !.isearch_state = Some(st)]
        ELSE [l EXCEPT !.text = H[i],
                       !.cursor_position = Min(Occurrences(H[i], st.pattern)),
                       !.history_index = None, !.history_prefix = <<>>,
                       !.original_text = <<>>,
                       !.isearch_state = Some([st EXCEPT !.index = i])]

\* insert_text(s, overwrite, safe_current_in_undo_buffer): s goes in at the cursor,
\* over the len(s) following characters when overwriting; the cursor ends after s.
\* During incremental search the characters extend the search pattern instead.
insert_text(l, s, overwrite, safe) ==
    LET l0 == IF safe THEN SaveToUndo(l) ELSE l
        cp == l.cursor_position
        rest == IF overwrite THEN Slice(l.text, cp + Len(s), Len(l.text))
                ELSE Slice(l.text, cp, Len(l.text))
        st == l.isearch_state[1]
    IN  IF in_isearch(l)
        THEN ISearchJump(l, [st EXCEPT !.pattern = @ \o s], FALSE)
        ELSE SetText(l0, Slice(l.text, 0, cp) \o s \o rest, cp + Len(s))

\* Remove text[a:b], leaving the cursor at cp; the removed text is Slice(text, a, b).
RemoveRange(l, a, b, cp) ==
    SetText(SaveToUndo(l), Slice(l.text, 0, a) \o Slice(l.text, b, Len(l.text)), cp)

delete(l) == RemoveRange(l, l.cursor_position, l.cursor_position + 1, l.cursor_position)
delete_Removed(l) == Slice(l.text, l.cursor_position, l.cursor_position + 1)

\* During incremental search the last character of the pattern goes instead.
delete_character_before_cursor(l) ==
    LET st == l.isearch_state[1]
    IN  IF in_isearch(l)
        THEN ISearchJump(l, [st EXCEPT !.pattern = Slice(@, 0, Len(@) - 1)], FALSE)
        ELSE IF l.cursor_position = 0 THEN RemoveRange(l, 0, 0, 0)
        ELSE RemoveRange(l, l.cursor_position - 1, l.cursor_position, l.cursor_position - 1)

\* delete_word: from the cursor up to the start of the next word (the end of the
\* text when no word follows).
DeleteWordEnd(l) == IF find_next_word_beginning(l) = -1 THEN Len(l.text)
                    ELSE find_next_word_beginning(l)
delete_word(l) == RemoveRange(l, l.cursor_position, DeleteWordEnd(l), l.cursor_position)
delete_word_Removed(l) == Slice(l.text, l.cursor_position, DeleteWordEnd(l))

delete_word_before_cursor(l) ==
    LET a == IF find_previous_word_beginning(l) = -1 THEN 0
             ELSE find_previous_word_beginning(l)
    IN  RemoveRange(l, a, l.cursor_position, a)

delete_until_end_of_line(l) == RemoveRange(l, l.cursor_position, LineEnd(l), l.cursor_position)
delete_until_end_of_line_Removed(l) == Slice(l.text, l.cursor_position, LineEnd(l))

delete_from_start_of_line(l) == RemoveRange(l, LineStart(l), l.cursor_position, LineStart(l))

\* delete_current_line: the line of the cursor goes, with the newline that ends it
\* (or, on the last line, the newline before it); the line without newline is returned.
delete_current_line(l) ==
    LET a == LineStart(l)
        b == LineEnd(l)
    IN  IF b < Len(l.text) THEN RemoveRange(l, a, b + 1, a)
        ELSE IF a > 0 THEN RemoveRange(l, a - 1, b, LineStartAt(l.text, a - 1))
        ELSE RemoveRange(l, 0, b, 0)
delete_current_line_Removed(l) == current_line(l)

cursor_left(l) ==
    SetCursor(l, IF l.cursor_position > 0 THEN l.cursor_position - 1 ELSE l.cursor_position)
cursor_right(l) ==
    SetCursor(l, IF l.cursor_position < Len(l.text) THEN l.cursor_position + 1
                 ELSE l.cursor_position)

\* Geometric moves: the same column of the line above or below, clipped to its length.
cursor_up(l) ==
    LET a == LineStart(l)
        pa == LineStartAt(l.text, a - 1)
    IN  SetCursor(l, IF a = 0 THEN l.cursor_position
                     ELSE pa + Min({cursor_position_col(l), (a - 1) - pa}))
cursor_down(l) ==
    LET b == LineEnd(l)
        nb == LineEndAt(l.text, b + 1)
    IN  SetCursor(l, IF b = Len(l.text) THEN l.cursor_position
                     ELSE (b + 1) + Min({cursor_position_col(l), nb - (b + 1)}))

cursor_word_forward(l) ==
    SetCursor(l, IF find_next_word_beginning(l) = -1 THEN l.cursor_position
                 ELSE find_next_word_beginning(l))
cursor_word_back(l) ==
    SetCursor(l, IF find_previous_word_beginning(l) = -1 THEN l.cursor_position
                 ELSE find_previous_word_beginning(l))
cursor_to_end_of_word(l) ==
    SetCursor(l, IF find_end_of_word(l) = -1 THEN l.cursor_position ELSE find_end_of_word(l))

cursor_to_start_of_line(l, after_whitespace) ==
    LET a == LineStart(l)
        b == LineEnd(l)
        ws == Min({b} \cup {p \in a..(b - 1) : ~IsSpace(l.text[p + 1])})
    IN  SetCursor(l, IF after_whitespace THEN ws ELSE a)
cursor_to_end_of_line(l) == SetCursor(l, LineEnd(l))
home(l) == SetCursor(l, 0)
end(l) == SetCursor(l, Len(l.text))

\* go_to_character_in_line(ch): the next occurrence of ch on the current line.
go_to_character_in_line(l, ch) ==
    LET S == {p \in (l.cursor_position + 1)..(LineEnd(l) - 1) : l.text[p + 1] = ch}
    IN  SetCursor(l, IF S = {} THEN l.cursor_position ELSE Min(S))

\* go_to_matching_bracket: from a bracket under the cursor to its partner.
OpenBrackets == <<"(", "[", "{">>
CloseBrackets == <<")", "]", "}">>
BracketDepth(t, a, b, o, c) ==
    Cardinality({q \in a..b : t[q + 1] = o}) - Cardinality({q \in a..b : t[q + 1] = c})
go_to_matching_bracket(l) ==
    LET t == l.text
        cp == l.cursor_position
        ch == current_char(l)
        io == {i \in 1..Len(OpenBrackets) : OpenBrackets[i] = ch}
        ic == {i \in 1..Len(CloseBrackets) : CloseBrackets[i] = ch}
        fwd == {p \in (cp + 1)..(Len(t) - 1) :
                   \E i \in io : BracketDepth(t, cp, p, OpenBrackets[i], CloseBrackets[i]) = 0}
        bwd == {p \in 0..(cp - 1) :
                   \E i \in ic : BracketDepth(t, p, cp, OpenBrackets[i], CloseBrackets[i]) = 0}
    IN  SetCursor(l, IF io # {} /\ fwd # {} THEN Min(fwd)
                     ELSE IF ic # {} /\ bwd # {} THEN Max(bwd)
                     ELSE cp)

swap_characters_before_cursor(l) ==
    LET cp == l.cursor_position
    IN  IF cp < 2 THEN Leave(l)
        ELSE SetText(SaveToUndo(l),
                     Slice(l.text, 0, cp - 2) \o <<l.text[cp], l.text[cp - 1]>>
                         \o Slice(l.text, cp, Len(l.text)),
                     cp)

\* newline(): "\n" at the cursor (auto-indent is the host's).
newline(l) == insert_text(Leave(l), <<"\n">>, FALSE, TRUE)

join_next_line(l) == delete(cursor_to_end_of_line(l))
insert_line_above(l) ==
    cursor_left(insert_text(cursor_to_start_of_line(l, FALSE), <<"\n">>, FALSE, TRUE))
insert_line_below(l) == insert_text(cursor_to_end_of_line(l), <<"\n">>, FALSE, TRUE)

set_clipboard(l, data) == [l EXCEPT !.clipboard = data]

\* paste_from_clipboard(before): CHARACTERS go in at the cursor; LINES go in as
\* full lines above (before) or below the current line.
paste_from_clipboard(l, before) ==
    LET d == l.clipboard.data
    IN  IF l.clipboard.type = CHARACTERS THEN insert_text(Leave(l), d, FALSE, TRUE)
        ELSE IF before
        THEN SetCursor(insert_text(cursor_to_start_of_line(l, FALSE), d \o <<"\n">>, FALSE, TRUE),
                       LineStart(l))
        ELSE SetCursor(insert_text(cursor_to_end_of_line(l), <<"\n">> \o d, FALSE, TRUE),
                       LineEnd(l) + 1)

\* undo() restoring the oldest snapshot
undoOldest(l) ==
    IF Len(l.undo_stack) = 0 THEN Leave(l)
    ELSE [SetText(l, l.undo_stack[1][1], l.undo_stack[1][2])
            EXCEPT !.undo_stack = Tail(l.undo_stack)]

\* undo(): pop a snapshot and restore it.
undo(l) ==
    IF Len(l.undo_stack) = 0 THEN Leave(l)
    ELSE [SetText(l, l.undo_stack[Len(l.undo_stack)][1], l.undo_stack[Len(l.undo_stack)][2])
            EXCEPT !.undo_stack = SubSeq(l.undo_stack, 1, Len(l.undo_stack) - 1)]

\* clear(): reset text and cursor.
clear(l) == SetText(l, <<>>, 0)

\* open_in_editor(): the text becomes what the external editor hands back.
open_in_editor(l, edited) == SetText(SaveToUndo(l), edited, Len(edited))

\* History browsing.  The first call of a run remembers the text before the cursor
\* as the prefix and the text as the original; an entry is shown with the cursor
\* at its end.
ShowHistory(l, i, prefix, orig) ==
    [Leave(l) EXCEPT !.text = l.history[i], !.cursor_position = Len(l.history[i]),
                     !.history_index = Some(i), !.history_prefix = prefix,
                     !.original_text = orig]

\* history_backward() showing the entry before the one shown, whatever it starts with
history_backwardUnfiltered(l) ==
    LET first == IsNone(l.history_index)
        below == IF first THEN Len(l.history) + 1 ELSE l.history_index[1]
    IN  IF below <= 1 THEN Leave(l)
        ELSE ShowHistory(l, below - 1,
                         IF first THEN text_before_cursor(l) ELSE l.history_prefix,
                         IF first THEN l.text ELSE l.original_text)

\* history_backward(): the most recent not yet shown entry that starts with the prefix.
history_backward(l) ==
    LET first == IsNone(l.history_index)
        prefix == IF first THEN text_before_cursor(l) ELSE l.history_prefix
        orig == IF first THEN l.text ELSE l.original_text
        below == IF first THEN Len(l.history) + 1 ELSE l.history_index[1]
        S == {i \in 1..(below - 1) : StartsWith(l.history[i], prefix)}
    IN  IF S = {} THEN Leave(l) ELSE ShowHistory(l, Max(S), prefix, orig)

\* history_forward() showing the entry after the one shown, whatever it starts with
history_forwardUnfiltered(l) ==
    IF IsNone(l.history_index) THEN Leave(l)
    ELSE IF l.history_index[1] < Len(l.history)
    THEN ShowHistory(l, l.history_index[1] + 1, l.history_prefix, l.original_text)
    ELSE SetText(l, l.original_text, Len(l.original_text))

\* history_forward(): the next newer entry that starts with the prefix; past the
\* newest one, the original text.
history_forward(l) ==
    LET S == {i \in (l.history_index[1] + 1)..Len(l.history) :
                 StartsWith(l.history[i], l.history_prefix)}
    IN  IF IsNone(l.history_index) THEN Leave(l)
        ELSE IF S # {} THEN ShowHistory(l, Min(S), l.history_prefix, l.original_text)
        ELSE SetText(l, l.original_text, Len(l.original_text))

\* auto_up / auto_down: geometric when the text has several lines, else history.
IsMultiline(l) == \E p \in 1..Len(l.text) : l.text[p] = "\n"
auto_up(l) == IF IsMultiline(l) THEN cursor_up(l) ELSE history_backward(l)
auto_down(l) == IF IsMultiline(l) THEN cursor_down(l) ELSE history_forward(l)

\* reverse_search() / forward_search(): enter incremental search, saving text and
\* cursor; inside it, go on to the next match in that direction.
EnterISearch(l, direction) ==
    LET st == l.isearch_state[1]
    IN  IF in_isearch(l) THEN ISearchJump(l, [st EXCEPT !.direction = direction], TRUE)
        ELSE [l EXCEPT !.completion_state = None,
                       !.isearch_state =
                           Some([direction |-> direction, pattern |-> <<>>,
                                 index |-> IF direction = BACKWARD THEN Len(l.history) + 1
                                           ELSE 0,
                                 original_text |-> l.text,
                                 original_cursor |-> l.cursor_position])]
reverse_search(l) == EnterISearch(l, BACKWARD)
forward_search(l) == EnterISearch(l, FORWARD)

\* exit_isearch() keeping the match whatever restore_original_line says
exit_isearchKeepsMatch(l, restore_original_line) ==
    IF ~in_isearch(l) THEN l ELSE [l EXCEPT !.isearch_state = None]

\* exit_isearch(restore_original_line)
exit_isearch(l, restore_original_line) ==
    LET st == l.isearch_state[1]
    IN  IF ~in_isearch(l) THEN l
        ELSE IF restore_original_line
        THEN [l EXCEPT !.text = st.original_text, !.cursor_position = st.original_cursor,
                       !.isearch_state = None]
        ELSE [l EXCEPT !.isearch_state = None]

\* complete(): `candidates` is what the code adapter offers (the suffixes to insert).
\* None: nothing happens. One: it is accepted. Several: the completion state is
\* entered with the first shown; a further call shows the next one.
ShowCompletion(l, st) ==
    [l EXCEPT !.text = Slice(st.original_text, 0, st.original_cursor)
                           \o st.candidates[st.index]
                           \o Slice(st.original_text, st.original_cursor, Len(st.original_text)),
              !.cursor_position = st.original_cursor + Len(st.candidates[st.index]),
              !.history_index = None, !.history_prefix = <<>>, !.original_text = <<>>,
              !.isearch_state = None,
              !.completion_state = Some(st)]
complete(l, candidates) ==
    LET st == l.completion_state[1]
    IN  IF in_completion(l)
        THEN ShowCompletion(l, [st EXCEPT !.index = (@ % Len(st.candidates)) + 1])
        ELSE IF Len(candidates) = 0 THEN Leave(l)
        ELSE IF Len(candidates) = 1 THEN insert_text(Leave(l), candidates[1], FALSE, TRUE)
        ELSE ShowCompletion(SaveToUndo(l),
                            [candidates |-> candidates, index |-> 1,
                             original_text |-> l.text,
                             original_cursor |-> l.cursor_position])
\* What complete() returns: false on the call that enters the completion state.
complete_Result(l, candidates) == in_completion(l) \/ Len(candidates) < 2

\* list_completions(): shows the candidates; the buffer is as it was.
list_completions(l) == l

\* set_arg_prompt(text)
set_arg_prompt(l, text) == [l EXCEPT !.arg_prompt_text = text]

-----------------------------------------------------------------------------
(* Repetition: `for i in range(n): line.op()` *)

\* A Line that an event may not leave behind (see Fits); the repetitions below
\* stop at one, since no further repetition of the same operation repairs it.
Overflown(l) == Len(l.undo_stack) > MaxUndo \/ Len(l.text) > MaxLen + MaxScenarioLen

\* The Line after n calls of the operation Op (none when n <= 0).  A call that
\* changes nothing ends the loop early: every later call changes nothing either.
RECURSIVE Repeat(_, _, _)
Repeat(Op(_), n, l) ==
    IF n <= 0 \/ Overflown(l) THEN l
    ELSE IF Op(l) = l THEN l
    ELSE Repeat(Op, n - 1, Op(l))

\* [line, parts]: the Line after n calls of the deleting operation Op and the
\* strings the calls returned, in order; Removed(l) is what Op returns on l.
RECURSIVE RepeatRemove(_, _, _, _, _)
RepeatRemove(Op(_), Removed(_), n, l, parts) ==
    IF n <= 0 \/ Overflown(l) THEN [line |-> l, parts |-> parts]
    ELSE RepeatRemove(Op, Removed, n - 1, Op(l), Append(parts, Removed(l)))

-----------------------------------------------------------------------------
(* InputStreamHandler: the common key bindings.                            *)
(* A handler state h is the record of the variables; a method maps the    *)
(* state before it to the state after it, h.raised naming the signal it   *)
(* raised.                                                                 *)

NoCall == "None"
NoSignal == "none"

\* `if value:` of Python for an arg count.
Truthy(v) == ~IsNone(v) /\ v[1] # 0
\* `self._arg_count or 1`
ArgOr1(v) == IF Truthy(v) THEN v[1] ELSE 1

\* The _arg_count setter: the value, and the argument prompt of the Line.
SetArgCount(h, value) ==
    [h EXCEPT !.arg_count = value,
              !.line = set_arg_prompt(h.line, IF Truthy(value) THEN value ELSE None)]

OnLine(h, l) == [h EXCEPT !.line = l]
Raise(h, signal) == [h EXCEPT !.raised = signal]

\* InputStreamHandler._reset
BaseReset(h) == [h EXCEPT !.second_tab = FALSE, !.last_call = NoCall, !.arg_count = None]

\* InputStreamHandler.tab; `candidates` is what the code adapter would offer.
BaseTab(h, candidates) ==
    IF h.second_tab
    THEN [OnLine(h, list_completions(h.line))
            EXCEPT !.second_tab = FALSE, !.tab_call = <<"list_completions">>]
    ELSE [OnLine(h, complete(h.line, candidates))
            EXCEPT !.second_tab = ~complete_Result(h.line, candidates),
                   !.tab_call = <<"complete", complete_Result(h.line, candidates)>>]

\* InputStreamHandler.insert_char(data, overwrite)
BaseInsertChar(h, data, overwrite) ==
    LET safe == h.last_call # "insert_char"
    IN  OnLine(h, insert_text(h.line, <<data>>, overwrite, safe))

\* InputStreamHandler.enter
BaseEnter(h) == Raise(h, "ReturnInput")

\* InputStreamHandler.ctrl_c and ctrl_d: abort() and exit() of the Line raise.
BaseCtrlC(h) == Raise(h, "Abort")
BaseCtrlD(h) == Raise(h, "Exit")

\* InputStreamHandler.ctrl_k
BaseCtrlK(h) ==
    OnLine(h, set_clipboard(delete_until_end_of_line(h.line),
                            ClipboardData(delete_until_end_of_line_Removed(h.line), CHARACTERS)))

\* InputStreamHandler.ctrl_w
BaseCtrlW(h) == OnLine(h, Repeat(delete_word_before_cursor, ArgOr1(h.arg_count), h.line))

\* The methods of InputStreamHandler that touch nothing but the Line, by name.
BaseLineMethods ==
    {"home", "end", "ctrl_a", "ctrl_b", "ctrl_e", "ctrl_f", "ctrl_g", "ctrl_h", "ctrl_l",
     "ctrl_n", "ctrl_p", "ctrl_r", "ctrl_s", "ctrl_t", "ctrl_u", "ctrl_y", "page_up",
     "page_down", "arrow_left", "arrow_right", "arrow_up", "arrow_down", "backspace",
     "delete", "alt_enter"}
BaseLineMethod(name, l) ==
    CASE name = "home" -> home(l)
      [] name = "end" -> end(l)
      [] name = "ctrl_a" -> cursor_to_start_of_line(l, FALSE)
      [] name \in {"ctrl_b", "arrow_left"} -> cursor_left(l)
      [] name = "ctrl_e" -> cursor_to_end_of_line(l)
      [] name \in {"ctrl_f", "arrow_right"} -> cursor_right(l)
      [] name = "ctrl_g" -> exit_isearch(l, TRUE)
      [] name \in {"ctrl_h", "backspace"} -> delete_character_before_cursor(l)
      [] name = "ctrl_l" -> clear(l)
      [] name \in {"ctrl_n", "page_down"} -> history_forward(l)
      [] name \in {"ctrl_p", "page_up"} -> history_backward(l)
      [] name = "ctrl_r" -> reverse_search(l)
      [] name = "ctrl_s" -> forward_search(l)
      [] name = "ctrl_t" -> swap_characters_before_cursor(l)
      [] name = "ctrl_u" -> delete_from_start_of_line(l)
      [] name = "ctrl_y" -> paste_from_clipboard(l, FALSE)
      [] name = "arrow_up" -> auto_up(l)
      [] name = "arrow_down" -> auto_down(l)
      [] name = "delete" -> delete(l)
      [] name = "alt_enter" -> newline(l)

\* The methods that do nothing.
BasePassMethods == {"ctrl_o", "ctrl_q", "ctrl_v", "ctrl_x", "ctrl_z"}

-----------------------------------------------------------------------------
(* ViInputStreamHandler *)

NAVIGATION == "navigation"
INSERT == "insert"
REPLACE == "replace"

\* _one_character_callback: None, False, or the closure cb of the f, t or r
\* handler with the arg it closes over.
Callback(kind, arg) == [kind |-> kind, arg |-> arg]
NoneCallback == Callback("None", 0)
FalseCallback == Callback("False", 0)
HasCallback(cb) == cb.kind \notin {"None", "False"}

\* The keys registered by _get_navigation_mode_handles, in the order of the source.
SingleKeys ==
    {"a", "A", "b", "B", "C", "S", "D", "e", "E", "f", "F", "G", "h", "H", "i", "I", "j",
     "J", "k", "l", " ", "L", "n", "N", "p", "P", "r", "R", "s", "t", "T", "u", "v", "w",
     "W", "x", "X", "^", "0", "$", "%", "+", "-", "{", "}", "O", "o", "~", "|", "/", "?"}
DoubleKeys ==
    {<<"c", "$">>, <<"c", "c">>, <<"c", "w">>, <<"c", "e">>, <<"d", "d">>, <<"d", "$">>,
     <<"d", "w">>, <<"y", "y">>, <<"y", "w">>, <<">", ">">>, <<"<", "<">>}

\* The handles dict: each entry is the key still to type and the registered key
\* whose function it holds.
all_navigation_handles ==
    {[key |-> <<c>>, handle |-> <<c>>] : c \in SingleKeys}
        \cup {[key |-> k, handle |-> k] : k \in DoubleKeys}

\* The closures cb of the f, t and r handlers.
CallbackF(l, arg, char) == Repeat(LAMBDA x : go_to_character_in_line(x, char), arg, l)
CallbackT(l, arg, char) ==
    cursor_left(Repeat(LAMBDA x : go_to_character_in_line(x, char), arg, l))
CallbackR(l, arg, char) == insert_text(l, StrTimes(<<char>>, arg), TRUE, TRUE)
RunCallback(cb, l, char) ==
    CASE cb.kind = "f" -> CallbackF(l, cb.arg, char)
      [] cb.kind = "t" -> CallbackT(l, cb.arg, char)
      [] cb.kind = "r" -> CallbackR(l, cb.arg, char)

\* Handlers that only act on the Line.
HandleH(l) == SetCursor(l, 0)
HandleLPastEnd(l) == SetCursor(l, Len(l.text) + 1)
HandleL(l) == SetCursor(l, Len(l.text))
HandleWOnce(l, arg) == cursor_word_forward(l)
HandleW(l, arg) == Repeat(cursor_word_forward, arg, l)
HandleDeleteToEnd(l) ==
    set_clipboard(delete_until_end_of_line(l),
                  ClipboardData(delete_until_end_of_line_Removed(l), CHARACTERS))
HandleDeleteWords(l, arg) ==
    LET r == RepeatRemove(delete_word, delete_word_Removed, arg, l, <<>>)
    IN  set_clipboard(r.line, ClipboardData(Join(<<>>, r.parts), CHARACTERS))
HandleDeleteChars(l, arg) ==
    LET r == RepeatRemove(delete, delete_Removed, arg, l, <<>>)
    IN  set_clipboard(r.line, ClipboardData(Join(<<>>, r.parts), CHARACTERS))
HandleDDCharacters(l, arg) ==
    LET r == RepeatRemove(delete_current_line, delete_current_line_Removed, arg, l, <<>>)
    IN  set_clipboard(r.line, ClipboardData(Join(<<"\n">>, r.parts), CHARACTERS))
HandleDD(l, arg) ==
    LET r == RepeatRemove(delete_current_line, delete_current_line_Removed, arg, l, <<>>)
    IN  set_clipboard(r.line, ClipboardData(Join(<<"\n">>, r.parts), LINES))
HandleYY(l, arg) ==
    LET lines == SplitLines(l.text)
        row == cursor_position_row(l)
    IN  set_clipboard(l, ClipboardData(Join(<<"\n">>, Slice(lines, row, row + arg)), LINES))
HandleTilde(l) ==
    LET c == current_char(l)
    IN  IF c # "\n"
        THEN insert_text(l, IF c = "" THEN <<>> ELSE <<IF IsLower(c) THEN Upper(c) ELSE Lower(c)>>,
                         TRUE, TRUE)
        ELSE l

\* The Line after the handler registered under `key` ran with `arg`; `edited` is
\* what the external editor would hand back.
HandleLine(key, l, arg, edited) ==
    CASE key = <<"a">> -> cursor_right(l)
      [] key = <<"A">> -> cursor_to_end_of_line(l)
      [] key \in {<<"b">>, <<"B">>} -> Repeat(cursor_word_back, arg, l)
      [] key \in {<<"C">>, <<"c", "$">>, <<"D">>, <<"d", "$">>} -> HandleDeleteToEnd(l)
      [] key \in {<<"c", "w">>, <<"c", "e">>, <<"d", "w">>} -> HandleDeleteWords(l, arg)
      [] key = <<"d", "d">> -> HandleDD(l, arg)
      [] key \in {<<"e">>, <<"E">>} -> cursor_to_end_of_word(l)
      [] key = <<"h">> -> Repeat(cursor_left, arg, l)
      [] key = <<"H">> -> HandleH(l)
      [] key = <<"I">> -> cursor_to_start_of_line(l, FALSE)
      [] key = <<"j">> -> Repeat(auto_down, arg, l)
      [] key = <<"J">> -> join_next_line(l)
      [] key = <<"k">> -> Repeat(auto_up, arg, l)
      [] key \in {<<"l">>, <<" ">>} -> Repeat(cursor_right, arg, l)
      [] key = <<"L">> -> HandleL(l)
      [] key = <<"p">> -> Repeat(LAMBDA x : paste_from_clipboard(x, FALSE), arg, l)
      [] key = <<"P">> -> Repeat(LAMBDA x : paste_from_clipboard(x, TRUE), arg, l)
      [] key \in {<<"s">>, <<"x">>} -> HandleDeleteChars(l, arg)
      [] key = <<"u">> -> Repeat(undo, arg, l)
      [] key = <<"v">> -> open_in_editor(l, edited)
      [] key \in {<<"w">>, <<"W">>} -> HandleW(l, arg)
      [] key = <<"X">> -> delete_character_before_cursor(l)
      [] key = <<"y", "y">> -> HandleYY(l, arg)
      [] key = <<"^">> -> cursor_to_start_of_line(l, TRUE)
      [] key = <<"0">> -> cursor_to_start_of_line(l, FALSE)
      [] key = <<"$">> -> cursor_to_end_of_line(l)
      [] key = <<"%">> -> go_to_matching_bracket(l)
      [] key = <<"O">> -> insert_line_above(l)
      [] key = <<"o">> -> insert_line_below(l)
      [] key = <<"~">> -> HandleTilde(l)
      [] OTHER -> l

\* The _vi_mode a handler leaves.
InsertKeys ==
    {<<"a">>, <<"A">>, <<"C">>, <<"c", "$">>, <<"c", "w">>, <<"c", "e">>, <<"i">>, <<"I">>,
     <<"s">>, <<"O">>, <<"o">>}
HandleMode(key, mode) ==
    IF key \in InsertKeys THEN INSERT
    ELSE IF key = <<"R">> THEN REPLACE
    ELSE mode

\* The _one_character_callback a handler leaves.
HandleCallback(key, cb, arg) ==
    IF key \in {<<"f">>, <<"t">>, <<"r">>} THEN Callback(key[1], arg) ELSE cb

\* Calling the handler function registered under `key` with `arg`.
Handle(key, h, arg, edited) ==
    [h EXCEPT !.line = HandleLine(key, h.line, arg, edited),
              !.vi_mode = HandleMode(key, h.vi_mode),
              !.one_character_callback = HandleCallback(key, h.one_character_callback, arg),
              !.fired = Append(h.fired, key)]

\* _arg_count_append(current, data): int("%s%s" % (current, data)), None from a million on.
ArgLimit == 1000000
ArgValue(current, data) ==
    IF IsNone(current) THEN (IF data = "-" THEN -1 ELSE DigitValue(data))
    ELSE IF current[1] >= 0 THEN current[1] * 10 + DigitValue(data)
    ELSE -((-current[1]) * 10 + DigitValue(data))
ArgCountAppendUpToLimit(current, data) ==
    IF ArgValue(current, data) > ArgLimit THEN None ELSE Some(ArgValue(current, data))
arg_count_append(current, data) ==
    IF ArgValue(current, data) >= ArgLimit THEN None ELSE Some(ArgValue(current, data))

\* ViInputStreamHandler._reset
ViReset(h) ==
    [BaseReset(h) EXCEPT !.vi_mode = INSERT, !.one_character_callback = NoneCallback]

\* ViInputStreamHandler.escape
ViEscapeKeepsHandles(h) == SetArgCount([h EXCEPT !.vi_mode = NAVIGATION], None)
ViEscape(h) ==
    SetArgCount([h EXCEPT !.vi_mode = NAVIGATION, !.current_handles = all_navigation_handles],
                None)

\* ViInputStreamHandler.enter
ViEnter(h) ==
    IF h.vi_mode = NAVIGATION THEN Raise(h, "ReturnInput") ELSE OnLine(h, newline(h.line))

\* The branches of ViInputStreamHandler.insert_char in navigation mode.
NavIsDigit(h, data) ==
    data \in {"1", "2", "3", "4", "5", "6", "7", "8", "9"} \/ (Truthy(h.arg_count) /\ data = "0")
NavMatches(h, data) == {e \in h.current_handles : e.key = <<data>>}
NavNarrowed(h, data) ==
    {[key |-> Tail(e.key), handle |-> e.handle] : e \in {x \in h.current_handles : Head(x.key) = data}}
NavDigit(h, data) == SetArgCount(h, arg_count_append(h.arg_count, data))
NavFireKeepsHandles(h, data, edited) ==
    LET e == CHOOSE x \in NavMatches(h, data) : TRUE
    IN  Handle(e.handle, SetArgCount(h, None), ArgOr1(h.arg_count), edited)
NavFire(h, data, edited) ==
    LET e == CHOOSE x \in NavMatches(h, data) : TRUE
    IN  [Handle(e.handle, SetArgCount(h, None), ArgOr1(h.arg_count), edited)
            EXCEPT !.current_handles = all_navigation_handles]
NavNarrow(h, data) == [h EXCEPT !.current_handles = NavNarrowed(h, data)]
NavNoMatchDropsCount(h) ==
    SetArgCount([h EXCEPT !.current_handles = all_navigation_handles], None)
NavNoMatch(h) == [h EXCEPT !.current_handles = all_navigation_handles]

\* ViInputStreamHandler.insert_char(data)
ViTextCharNeverOverwrites(h, data) == BaseInsertChar(h, data, FALSE)
ViTextChar(h, data) ==
    IF h.vi_mode = REPLACE THEN BaseInsertChar(h, data, TRUE)
    ELSE IF h.vi_mode = INSERT THEN BaseInsertChar(h, data, FALSE)
    ELSE h
ViInsertChar(h, data, edited) ==
    IF HasCallback(h.one_character_callback)
    THEN [h EXCEPT !.line = RunCallback(h.one_character_callback, h.line, data),
                   !.one_character_callback = FalseCallback]
    ELSE IF h.vi_mode = NAVIGATION
    THEN (IF NavIsDigit(h, data) THEN NavDigit(h, data)
          ELSE IF NavMatches(h, data) # {} THEN NavFire(h, data, edited)
          ELSE IF NavNarrowed(h, data) # {} THEN NavNarrow(h, data)
          ELSE NavNoMatch(h))
    ELSE ViTextChar(h, data)

\* The arguments a method of the handlers takes besides self, and what Python raises
\* when `method(*a)` hands it others.
Arity(name) == IF name \in {"insert_char", "alt_digit"} THEN 1 ELSE 0
TypeError == "TypeError"

\* InputStreamHandler.__call__ before the method is looked up.
CallStartKeepsSecondTab(name, h) == h
CallStart(name, h) == IF name # "ctrl_i" THEN [h EXCEPT !.second_tab = FALSE] ELSE h

\* The method a name resolves to on a ViInputStreamHandler, applied.  An event is
\* <<name>> or <<"insert_char", data>>; env holds what the collaborators answer.
ViMethodNames ==
    BaseLineMethods \cup BasePassMethods
        \cup {"ctrl_c", "ctrl_d", "ctrl_i", "ctrl_j", "ctrl_k", "ctrl_m", "ctrl_w", "tab",
              "insert_char", "enter", "escape"}
ViMethod(ev, h, env) ==
    CASE ev[1] = "escape" -> ViEscape(h)
      [] ev[1] \in {"enter", "ctrl_j", "ctrl_m"} -> ViEnter(h)
      [] ev[1] = "insert_char" -> ViInsertChar(h, ev[2], env.edited)
      [] ev[1] \in {"tab", "ctrl_i"} -> BaseTab(h, env.candidates)
      [] ev[1] = "ctrl_c" -> BaseCtrlC(h)
      [] ev[1] = "ctrl_d" -> BaseCtrlD(h)
      [] ev[1] = "ctrl_k" -> BaseCtrlK(h)
      [] ev[1] = "ctrl_w" -> BaseCtrlW(h)
      [] ev[1] \in BaseLineMethods -> OnLine(h, BaseLineMethod(ev[1], h.line))
      [] ev[1] \in BasePassMethods -> h

\* InputStreamHandler.__call__(name, *a) on a ViInputStreamHandler: `method(*a)` where
\* getattr found a method, a TypeError when the arguments are not the ones it takes.
ViDispatchUnguarded(ev, h, env) ==
    IF ev[1] \in ViMethodNames /\ Len(ev) - 1 = Arity(ev[1]) THEN ViMethod(ev, h, env)
    ELSE Raise(h, TypeError)
ViDispatch(ev, h, env) ==
    IF ev[1] \in ViMethodNames
    THEN (IF Len(ev) - 1 = Arity(ev[1]) THEN ViMethod(ev, h, env) ELSE Raise(h, TypeError))
    ELSE h
ViCalledWithoutReset(name, h) ==
    IF h.raised # NoSignal THEN h ELSE [h EXCEPT !.last_call = name]
ViCalled(name, h) ==
    IF h.raised \in {"Abort", "ReturnInput"} THEN ViReset(h)
    ELSE IF h.raised # NoSignal THEN h
    ELSE [h EXCEPT !.last_call = name]
ViCall(ev, h, env) == ViCalled(ev[1], ViDispatch(ev, CallStart(ev[1], h), env))

-----------------------------------------------------------------------------
(* EmacsInputStreamHandler *)

\* str.capitalize(), str.lower(), str.upper()
StrLower(s) == [i \in 1..Len(s) |-> Lower(s[i])]
StrUpper(s) == [i \in 1..Len(s) |-> Upper(s[i])]
StrCapitalize(s) == [i \in 1..Len(s) |-> IF i = 1 THEN Upper(s[i]) ELSE Lower(s[i])]

\* EmacsInputStreamHandler._reset
EmacsReset(h) == [BaseReset(h) EXCEPT !.escape_pressed = FALSE, !.ctrl_x_pressed = FALSE]

\* EmacsInputStreamHandler.insert_char(data)
EmacsInsertCharOnce(h, data) == BaseInsertChar(h, data, FALSE)
EmacsInsertChar(h, data) ==
    LET safe == h.last_call # "insert_char"
    IN  OnLine(h, Repeat(LAMBDA x : insert_text(x, <<data>>, FALSE, safe), ArgOr1(h.arg_count), h.line))

\* alt_c, alt_l, alt_u: the following words, recased, written over themselves.
EmacsFollowingWords(h) == get_following_words(h.line, ArgOr1(h.arg_count), TRUE)
EmacsAltC(h) == OnLine(h, insert_text(h.line, StrCapitalize(EmacsFollowingWords(h)), TRUE, TRUE))
EmacsAltL(h) == OnLine(h, insert_text(h.line, StrLower(EmacsFollowingWords(h)), TRUE, TRUE))
EmacsAltU(h) == OnLine(h, insert_text(h.line, StrUpper(EmacsFollowingWords(h)), TRUE, TRUE))

\* EmacsInputStreamHandler.alt_d
EmacsAltD(h) ==
    OnLine(h, set_clipboard(delete_word(h.line),
                            ClipboardData(delete_word_Removed(h.line), CHARACTERS)))

\* EmacsInputStreamHandler.ctrl_x_ctrl_x
EmacsCtrlXCtrlX(h) ==
    OnLine(h, IF current_char(h.line) = "\n" THEN cursor_to_start_of_line(h.line, FALSE)
              ELSE cursor_to_end_of_line(h.line))

\* The method a (composed) name resolves to on an EmacsInputStreamHandler, applied.
EmacsOwnMethods ==
    {"escape", "ctrl_x", "insert_char", "alt_ctrl_j", "alt_ctrl_m", "alt_digit", "alt_enter",
     "alt_c", "alt_f", "alt_b", "alt_d", "alt_l", "alt_t", "alt_u", "ctrl_underscore",
     "alt_backslash", "alt_star", "ctrl_x_ctrl_e", "ctrl_x_ctrl_u", "ctrl_x_ctrl_x"}
EmacsMethodNames ==
    EmacsOwnMethods \cup BaseLineMethods \cup BasePassMethods
        \cup {"ctrl_c", "ctrl_d", "ctrl_i", "ctrl_j", "ctrl_k", "ctrl_m", "ctrl_w", "tab", "enter"}
EmacsMethod(ev, h, env) ==
    CASE ev[1] = "escape" -> [h EXCEPT !.escape_pressed = TRUE]
      [] ev[1] = "ctrl_x" -> [h EXCEPT !.ctrl_x_pressed = TRUE]
      [] ev[1] = "insert_char" -> EmacsInsertChar(h, ev[2])
      [] ev[1] = "alt_digit" -> SetArgCount(h, arg_count_append(h.arg_count, ev[2]))
      [] ev[1] \in {"alt_ctrl_j", "alt_ctrl_m", "alt_enter", "alt_t", "alt_backslash",
                    "alt_star"} -> h
      [] ev[1] = "alt_c" -> EmacsAltC(h)
      [] ev[1] = "alt_l" -> EmacsAltL(h)
      [] ev[1] = "alt_u" -> EmacsAltU(h)
      [] ev[1] = "alt_f" -> OnLine(h, cursor_word_forward(h.line))
      [] ev[1] = "alt_b" -> OnLine(h, cursor_word_back(h.line))
      [] ev[1] = "alt_d" -> EmacsAltD(h)
      [] ev[1] \in {"ctrl_underscore", "ctrl_x_ctrl_u"} -> OnLine(h, undo(h.line))
      [] ev[1] = "ctrl_x_ctrl_e" -> OnLine(h, open_in_editor(h.line, env.edited))
      [] ev[1] = "ctrl_x_ctrl_x" -> EmacsCtrlXCtrlX(h)
      [] ev[1] \in {"enter", "ctrl_j", "ctrl_m"} -> BaseEnter(h)
      [] ev[1] \in {"tab", "ctrl_i"} -> BaseTab(h, env.candidates)
      [] ev[1] = "ctrl_c" -> BaseCtrlC(h)
      [] ev[1] = "ctrl_d" -> BaseCtrlD(h)
      [] ev[1] = "ctrl_k" -> BaseCtrlK(h)
      [] ev[1] = "ctrl_w" -> BaseCtrlW(h)
      [] ev[1] \in BaseLineMethods \ EmacsOwnMethods -> OnLine(h, BaseLineMethod(ev[1], h.line))
      [] ev[1] \in BasePassMethods \ EmacsOwnMethods -> h

\* InputStreamHandler.__call__(name, *a) on an EmacsInputStreamHandler.
EmacsDispatch(ev, h, env) ==
    IF ev[1] \in EmacsMethodNames
    THEN (IF Len(ev) - 1 = Arity(ev[1]) THEN EmacsMethod(ev, h, env) ELSE Raise(h, TypeError))
    ELSE h
EmacsCalled(name, h) ==
    IF h.raised \in {"Abort", "ReturnInput"} THEN EmacsReset(h)
    ELSE IF h.raised # NoSignal THEN h
    ELSE [h EXCEPT !.last_call = name]
EmacsBaseCall(ev, h, env) == EmacsCalled(ev[1], EmacsDispatch(ev, CallStart(ev[1], h), env))

\* The name and arguments EmacsInputStreamHandler.__call__ hands on, after the
\* alt_ and ctrl_x_ prefixes.
EmacsAltEvent(ev, h) ==
    IF ~h.escape_pressed THEN ev
    ELSE IF ev[1] = "insert_char"
    THEN (IF IsDigit(ev[2]) \/ (ev[2] = "-" /\ IsNone(h.arg_count))
          THEN <<"alt_digit", ev[2]>>
          ELSE <<"alt_" \o ev[2]>>)
    ELSE <<"alt_" \o ev[1]>> \o Tail(ev)
EmacsComposedEventPlainPrefix(ev, h) ==
    LET e == EmacsAltEvent(ev, h)
    IN  IF ev[1] \in {"escape", "ctrl_x"} THEN ev
        ELSE IF h.ctrl_x_pressed THEN <<"ctrl_x_" \o e[1]>> \o Tail(e) ELSE e
EmacsComposedEvent(ev, h) ==
    LET e == EmacsAltEvent(ev, h)
    IN  IF h.ctrl_x_pressed THEN <<"ctrl_x_" \o e[1]>> \o Tail(e) ELSE e
EmacsKeepsArgCount(ev, h) ==
    \/ (h.escape_pressed /\ EmacsAltEvent(ev, h)[1] = "alt_digit")
    \/ EmacsComposedEvent(ev, h)[1] = "escape"

\* EmacsInputStreamHandler.__call__(name, *a)
\* The rest of __call__ once super().__call__ has left the state h1; `name` is the
\* composed name, `keep` tells that reset_arg_count_after_call is off.
EmacsAfterCallKeepsCtrlX(name, keep, h1) ==
    IF h1.raised # NoSignal THEN h1
    ELSE IF keep THEN h1 ELSE SetArgCount(h1, None)
EmacsAfterCall(name, keep, h1) ==
    IF h1.raised # NoSignal THEN h1
    ELSE IF name # "ctrl_x"
    THEN [(IF keep THEN h1 ELSE SetArgCount(h1, None)) EXCEPT !.ctrl_x_pressed = FALSE]
    ELSE (IF keep THEN h1 ELSE SetArgCount(h1, None))
EmacsCall(ev, h, env) ==
    EmacsAfterCall(EmacsComposedEvent(ev, h)[1], EmacsKeepsArgCount(ev, h),
                   EmacsBaseCall(EmacsComposedEvent(ev, h), [h EXCEPT !.escape_pressed = FALSE], env))

-----------------------------------------------------------------------------
(* The handler at work: one action per kind of key event *)

Vi == "ViInputStreamHandler"
Emacs == "EmacsInputStreamHandler"

\* The names the input stream calls the handler with, besides insert_char; F1
\* stands for the keys no handler binds.
NamedKeys ==
    {"home", "end", "ctrl_a", "ctrl_b", "ctrl_c", "ctrl_d", "ctrl_e", "ctrl_f", "ctrl_g",
     "ctrl_h", "ctrl_i", "ctrl_j", "ctrl_k", "ctrl_l", "ctrl_m", "ctrl_n", "ctrl_o", "ctrl_p",
     "ctrl_q", "ctrl_r", "ctrl_s", "ctrl_t", "ctrl_u", "ctrl_v", "ctrl_w", "ctrl_x", "ctrl_y",
     "ctrl_z", "ctrl_underscore", "escape", "enter", "backspace", "delete", "tab", "page_up",
     "page_down", "arrow_left", "arrow_right", "arrow_up", "arrow_down", "F1"}

\* What the collaborators may answer: the completions of the code adapter and the
\* text the external editor hands back.
CandidateLists == {<<>>, << <<"a">> >>, << <<"a">>, <<"1">> >>}
EditorTexts == {<<>>, <<"1">>}
NoAnswers == [candidates |-> <<>>, edited |-> <<>>]
Answers(tab, editor) ==
    [candidates : IF tab THEN CandidateLists ELSE {<<>>},
     edited : IF editor THEN EditorTexts ELSE {<<>>}]

\* The state the event acts on.
Handler ==
    [line |-> line, second_tab |-> second_tab, last_call |-> last_call,
     arg_count |-> arg_count, escape_pressed |-> escape_pressed,
     ctrl_x_pressed |-> ctrl_x_pressed, vi_mode |-> vi_mode,
     current_handles |-> current_handles,
     one_character_callback |-> one_character_callback,
     fired |-> <<>>, raised |-> NoSignal, tab_call |-> <<>>]

\* The bounds B of a specification: an event may not grow the text, the undo
\* stack, the search pattern or the arg count past them.
Bounds(maxLen, maxUndo, maxArg, maxPattern, maxEvents) ==
    [len |-> maxLen, undo |-> maxUndo, arg |-> maxArg, pattern |-> maxPattern,
     events |-> maxEvents]
Fits(h, B) ==
    /\ Len(h.line.undo_stack) <= B.undo
    /\ IF Len(h.line.text) <= B.len THEN TRUE ELSE Len(h.line.text) <= Len(line.text)
    /\ IF in_isearch(h.line) THEN Len(h.line.isearch_state[1].pattern) <= B.pattern ELSE TRUE
    /\ IF IsNone(h.arg_count) THEN TRUE
       ELSE h.arg_count[1] <= B.arg /\ h.arg_count[1] >= -B.arg

\* The state after the call h of the handler.  After ReturnInput or Abort the next
\* read_input starts on a fresh Line.
Committed(h, B) ==
    /\ keys_read < B.events
    /\ keys_read' = keys_read + 1
    /\ Fits(h, B)
    /\ line' = IF h.raised \in {"Abort", "ReturnInput"} THEN NewLine(<<>>, 0, line.history)
               ELSE h.line
    /\ second_tab' = h.second_tab
    /\ last_call' = h.last_call
    /\ arg_count' = h.arg_count
    /\ escape_pressed' = h.escape_pressed
    /\ ctrl_x_pressed' = h.ctrl_x_pressed
    /\ vi_mode' = h.vi_mode
    /\ current_handles' = h.current_handles
    /\ one_character_callback' = h.one_character_callback
    /\ fired' = h.fired
    /\ raised' = h.raised
    /\ tab_call' = h.tab_call
    /\ UNCHANGED handler_cls

\* The same where the handler is called on its own: nothing else changes.
Commit(h, B) ==
    /\ Committed(h, B)
    /\ UNCHANGED returned
    /\ UNCHANGED renderer_vars
    /\ UNCHANGED history_vars
    /\ UNCHANGED python_vars

\* The log of a session: the text and cursor it starts with, and after every event
\* the event, the method it called and the navigation keys it fired, the text and
\* cursor it left, the depth of the undo stack, and whether it left the Line in
\* incremental search.  Unlogged where no log is kept.
Unlogged == [logged |-> FALSE, log |-> <<>>]
LogEntry(ev, call, keys, l) ==
    [event |-> ev, call |-> call, fired |-> keys,
     text |-> l.text, cursor_position |-> l.cursor_position,
     undo_depth |-> Len(l.undo_stack), searching |-> in_isearch(l)]
NewLog(t, cp) ==
    [logged |-> TRUE, log |-> <<LogEntry(<<>>, NoCall, <<>>, NewLine(t, cp, <<>>))>>]
Logged(ev) ==
    session' = IF session.logged
               THEN [session EXCEPT !.log = Append(@, LogEntry(ev, last_call', fired', line'))]
               ELSE session

\* The named key `name` reaches the Vi handler.
ViKeyEvent(name, B) ==
    /\ handler_cls = Vi
    /\ \E env \in Answers(name \in {"tab", "ctrl_i"}, FALSE) :
           Commit(ViCall(<<name>>, Handler, env), B)
    /\ Logged(<<name>>)

\* The character c reaches the Vi handler.
ViCharEvent(c, B) ==
    /\ handler_cls = Vi
    /\ \E env \in Answers(FALSE, c = "v") :
           Commit(ViCall(<<"insert_char", c>>, Handler, env), B)
    /\ Logged(<<"insert_char", c>>)

\* The named key `name` reaches the Emacs handler.
EmacsKeyEvent(name, B) ==
    /\ handler_cls = Emacs
    /\ \E env \in Answers(name \in {"tab", "ctrl_i"}, name = "ctrl_e") :
           Commit(EmacsCall(<<name>>, Handler, env), B)
    /\ Logged(<<name>>)

\* The character c reaches the Emacs handler.
EmacsCharEvent(c, B) ==
    /\ handler_cls = Emacs
    /\ Commit(EmacsCall(<<"insert_char", c>>, Handler, NoAnswers), B)
    /\ Logged(<<"insert_char", c>>)

\* The handler and its Line after construction, the Line holding text t with the
\* cursor at cp and bound to the history H.
NewHandler(cls, t, cp, H) ==
    /\ handler_cls = cls
    /\ line = NewLine(t, cp, H)
    /\ second_tab = FALSE
    /\ last_call = NoCall
    /\ arg_count = None
    /\ escape_pressed = FALSE
    /\ ctrl_x_pressed = FALSE
    /\ vi_mode = INSERT
    /\ current_handles = {}
    /\ one_character_callback = NoneCallback
    /\ keys_read = 0
    /\ fired = <<>>
    /\ raised = NoSignal
    /\ tab_call = <<>>
    /\ returned = <<>>

\* The Renderer after construction: nothing painted yet.
NewRenderer == [lines_in_use |-> 0, cursor_line |-> 0]

\* No FileHistory is in use: the history of the Line is a History in memory.
NoFileHistory ==
    /\ history_file = None
    /\ file_history = <<>>
    /\ reloaded = None

\* The handler at work on its own: the renderer is constructed and never called.
\* log is the session log it starts with.
InitSession(cls, t, cp, H, log) ==
    /\ NewHandler(cls, t, cp, H)
    /\ session = log
    /\ NoFileHistory
    /\ paste_mode = FALSE
    /\ multiline = FALSE
    /\ renderer = NewRenderer
    /\ screen = None
    /\ render_context = None
    /\ terminal = [columns |-> 0, written |-> <<>>, cursor |-> <<0, 0>>, began |-> 0]
    /\ renders = 0

InitHandler(cls, t, cp, H) == InitSession(cls, t, cp, H, Unlogged)

-----------------------------------------------------------------------------
(* Spec: the Vi handler under every character of its navigation table *)

\* Characters typed as text, and characters typed as commands; z is bound to nothing.
TextChars == {"a", "1", " "}
NavChars == SingleKeys \cup {k[1] : k \in DoubleKeys} \cup {k[2] : k \in DoubleKeys}
                \cup {"1", "2", "3", "4", "z"}
ViTyping == vi_mode # NAVIGATION \/ HasCallback(one_character_callback)

SpecBounds == Bounds(MaxLen, MaxUndo, MaxArg, MaxPattern, MaxEvents)
ModeKeys == {"escape", "enter", "ctrl_c"}
SpecHistory == << <<"a", "1">>, <<"a">> >>
SpecTexts == {<<>>, <<"a", " ", "a">>, <<"a", "\n", "1">>}

ViKey == \E name \in ModeKeys : ViKeyEvent(name, SpecBounds)
ViChar == \E c \in (IF ViTyping THEN TextChars ELSE NavChars) : ViCharEvent(c, SpecBounds)

Init == \E t \in SpecTexts : \E cp \in 0..Len(t) : InitHandler(Vi, t, cp, SpecHistory)

Next == ViKey \/ ViChar

Spec == Init /\ [][Next]_vars

-----------------------------------------------------------------------------
(* SpecKeys: every key, through either handler *)

\* Characters typed after escape in the Emacs handler: the Alt combinations, the
\* arg count, and one that is bound to nothing.
AltChars == {"f", "b", "c", "d", "l", "u", "t", "-", "0", "1", "2", "3", "4", "z"}

KeysBounds == Bounds(MaxLen, MaxUndo, MaxArg, MaxPattern, MaxKeys)
KeysTexts == {<<"a", " ", "a">>, <<"a", "\n", "1">>}

ViAnyKey == \E name \in NamedKeys : ViKeyEvent(name, KeysBounds)
ViAnyChar == \E c \in (IF ViTyping THEN TextChars ELSE NavChars) : ViCharEvent(c, KeysBounds)
EmacsKey == \E name \in NamedKeys : EmacsKeyEvent(name, KeysBounds)
EmacsChar == \E c \in (IF escape_pressed THEN AltChars ELSE TextChars) : EmacsCharEvent(c, KeysBounds)

InitKeys ==
    \E cls \in {Vi, Emacs} : \E t \in KeysTexts : \E cp \in 0..Len(t) :
        InitHandler(cls, t, cp, SpecHistory)

NextKeys == ViAnyKey \/ ViAnyChar \/ EmacsKey \/ EmacsChar

SpecKeys == InitKeys /\ [][NextKeys]_vars

-----------------------------------------------------------------------------
(* SpecCount: the Vi handler under counts and motions on "one two three four" *)

ScenarioText ==
    <<"o", "n", "e", " ", "t", "w", "o", " ", "t", "h", "r", "e", "e", " ", "f", "o", "u", "r">>
CountChars == {"1", "3", "0", "w", "b", "e", "h", "l", "$"}
CountBounds == Bounds(MaxScenarioLen, MaxUndo, ArgLimit, MaxPattern, MaxCountEvents)

CountKey == ViKeyEvent("escape", CountBounds)
CountChar == \E c \in CountChars : ViCharEvent(c, CountBounds)

InitCount == InitHandler(Vi, ScenarioText, 0, <<>>)

NextCount == CountKey \/ CountChar

SpecCount == InitCount /\ [][NextCount]_vars

-----------------------------------------------------------------------------
(* SpecEmacs: the Emacs handler under numeric arguments *)

\* Characters typed after escape (the argument keys, Alt+b and Alt+f) and as text.
EmacsArgChars == {"-", "0", "1", "2", "b", "f"}
EmacsTextChars == {"a"}
EmacsArgKeys ==
    {"escape", "ctrl_b", "ctrl_f", "arrow_left", "arrow_right", "ctrl_d", "ctrl_underscore"}
EmacsBounds == Bounds(MaxLen, MaxUndo, MaxEmacsArg, MaxPattern, MaxEmacsEvents)
EmacsTexts == {<<>>, <<"a", " ", "a">>}

EmacsArgKey == \E name \in EmacsArgKeys : EmacsKeyEvent(name, EmacsBounds)
EmacsArgChar ==
    \E c \in (IF escape_pressed THEN EmacsArgChars ELSE EmacsTextChars) :
        EmacsCharEvent(c, EmacsBounds)

InitEmacs == \E t \in EmacsTexts : \E cp \in 0..Len(t) : InitHandler(Emacs, t, cp, <<>>)

NextEmacs == EmacsArgKey \/ EmacsArgChar

SpecEmacs == InitEmacs /\ [][NextEmacs]_vars

-----------------------------------------------------------------------------
(* SpecUndo: typing into the empty buffer of the Emacs handler, and undoing it *)

TypedChars == {"h", "e", "l", "o"}
UndoArgChars == {"-", "2"}
UndoKeys == {"ctrl_underscore", "escape", "arrow_left"}
UndoBounds == Bounds(MaxTypedLen, MaxUndo, MaxArg, MaxPattern, MaxUndoEvents)

UndoKey == \E name \in UndoKeys : EmacsKeyEvent(name, UndoBounds)
UndoChar ==
    \E c \in (IF escape_pressed THEN UndoArgChars ELSE TypedChars) :
        EmacsCharEvent(c, UndoBounds)

InitUndo == InitHandler(Emacs, <<>>, 0, <<>>)

NextUndo == UndoKey \/ UndoChar

SpecUndo == InitUndo /\ [][NextUndo]_vars

-----------------------------------------------------------------------------
(* SpecTab: the tab key, which the input stream delivers as ctrl_i, among other *)
(* keys, through either handler                                                *)

TabKeys == {"ctrl_i", "escape", "arrow_left", "ctrl_c", "ctrl_d"}
TabTextChars == {"a"}
TabNavChars == {"l", "i"}
TabAltChars == {"f"}
TabBounds == Bounds(MaxLen, MaxUndo, MaxArg, MaxPattern, MaxTabEvents)
TabTexts == {<<>>, <<"a">>}

TabViKey == \E name \in TabKeys : ViKeyEvent(name, TabBounds)
TabViChar ==
    \E c \in (IF ViTyping THEN TabTextChars ELSE TabNavChars) : ViCharEvent(c, TabBounds)
TabEmacsKey == \E name \in TabKeys : EmacsKeyEvent(name, TabBounds)
TabEmacsChar ==
    \E c \in (IF escape_pressed THEN TabAltChars ELSE TabTextChars) :
        EmacsCharEvent(c, TabBounds)

InitTab ==
    \E cls \in {Vi, Emacs} : \E t \in TabTexts : \E cp \in 0..Len(t) :
        InitHandler(cls, t, cp, <<>>)

NextTab == TabViKey \/ TabViChar \/ TabEmacsKey \/ TabEmacsChar

SpecTab == InitTab /\ [][NextTab]_vars

-----------------------------------------------------------------------------
(* TerminalCodes and the terminal (src/prompt_toolkit/renderer.py).          *)
(* What the renderer writes is a sequence of pieces: a glyph with its style, *)
(* or an escape code with its amount.                                        *)

TerminalCode(code, amount) == [code |-> code, char |-> "", style |-> None, n |-> amount]

ERASE_DOWN == TerminalCode("ERASE_DOWN", 0)
CARRIAGE_RETURN == TerminalCode("CARRIAGE_RETURN", 0)
CRLF == TerminalCode("CRLF", 0)
CURSOR_UP(amount) == TerminalCode("CURSOR_UP", amount)
CURSOR_FORWARD(amount) == TerminalCode("CURSOR_FORWARD", amount)
CURSOR_BACKWARD(amount) == TerminalCode("CURSOR_BACKWARD", amount)

\* The glyph that stands for every double-width character.
WideChars == {"W"}

\* libs.wcwidth.wcwidth: the columns a character takes, -1 for a control character.
wcwidth(char) ==
    IF char = "\n" THEN -1 ELSE IF char \in WideChars THEN 2 ELSE 1

\* Char: one cell of the screen.  A style is None or <<dict>>.
Char(char, style) == [char |-> char, style |-> style]
DefaultChar == Char(" ", None)
CharWidth(c) == Max({1, wcwidth(c.char)})
CharOutput(c) == [code |-> "CHAR", char |-> c.char, style |-> c.style, n |-> 0]

\* The cursor <<row, column>> of a terminal of `columns` columns after it received the
\* piece o: a glyph that does not fit in the row goes to the next one.
TerminalStep(cur, o, columns) ==
    CASE o.code = "CHAR" ->
            IF cur[2] + CharWidth(o) > columns
            THEN <<cur[1] + 1, CharWidth(o)>>
            ELSE <<cur[1], cur[2] + CharWidth(o)>>
      [] o.code = "CARRIAGE_RETURN" -> <<cur[1], 0>>
      [] o.code = "CRLF" -> <<cur[1] + 1, 0>>
      [] o.code = "ERASE_DOWN" -> cur
      [] o.code = "CURSOR_UP" -> <<cur[1] - o.n, cur[2]>>
      [] o.code = "CURSOR_FORWARD" -> <<cur[1], Min({columns - 1, cur[2] + o.n})>>
      [] o.code = "CURSOR_BACKWARD" -> <<cur[1], Max({0, cur[2] - o.n})>>

RECURSIVE TerminalWrite(_, _, _)
TerminalWrite(cur, out, columns) ==
    IF out = <<>> THEN cur
    ELSE TerminalWrite(TerminalStep(cur, Head(out), columns), Tail(out), columns)

-----------------------------------------------------------------------------
(* Screen *)

TokenPrompt == "Token.Prompt"
TokenSecondLinePrefix == "Token.Prompt.SecondLinePrefix"
TokenText == "Token.Text"
TokenToolbar == "Token.Toolbar"
TokenAborted == "Token.Aborted"

\* d[key] = value on a dict
DictSet(d, key, value) == [k \in DOMAIN d \cup {key} |-> IF k = key THEN value ELSE d[k]]

\* d[key] on a defaultdict
DictGet(d, key, default) == IF key \in DOMAIN d THEN d[key] ELSE default

\* style.style_for_token(token), None on a KeyError: every token has a style of its own.
style_for_token(token) == Some([token |-> token, bgcolor |-> "", color |-> ""])

Screen(columns, grayed) ==
    [buffer |-> <<>>, cursor_mappings |-> <<>>, x |-> 0, y |-> 0,
     input_row |-> 0, input_col |-> 0, columns |-> columns, grayed |-> grayed,
     second_line_prefix_func |-> None]

save_input_posOfNextRow(s) ==
    [s EXCEPT !.cursor_mappings = DictSet(@, <<s.input_row, s.input_col>>, <<s.y + 1, s.x>>)]
save_input_pos(s) ==
    [s EXCEPT !.cursor_mappings = DictSet(@, <<s.input_row, s.input_col>>, <<s.y, s.x>>)]

set_second_line_prefix(s, func) == [s EXCEPT !.second_line_prefix_func = func]

\* write_char staying on the line whatever place is left
StayOnLine(s, char) == s

\* write_char, "if there is no more place left at this line, go first to the following"
NextLineIfFull(s, char) ==
    IF s.x + wcwidth(char) >= s.columns THEN [s EXCEPT !.y = @ + 1, !.x = 0] ELSE s

\* write_char, "Remember at which position this input character has been drawn."
RememberInput(s, is_input) == IF is_input THEN save_input_pos(s) ELSE s

\* write_char, "Insertion of newline", up to the second line prefix
InsertNewline(s, is_input) ==
    [s EXCEPT !.y = @ + 1, !.x = 0,
              !.input_row = IF is_input THEN @ + 1 ELSE @,
              !.input_col = IF is_input THEN 0 ELSE @]

\* write_char, "Insertion of a 'visible' character."
InsertVisible(s, char, token, is_input) ==
    [s EXCEPT !.buffer = DictSet(@, s.y, DictSet(DictGet(@, s.y, <<>>), s.x,
                                                 Char(char, style_for_token(token)))),
              !.input_col = IF is_input THEN @ + 1 ELSE @,
              !.y = IF s.x + wcwidth(char) >= s.columns THEN @ + 1 ELSE @,
              !.x = IF s.x + wcwidth(char) >= s.columns THEN 0 ELSE @ + wcwidth(char)]

InsertChar(s, char, token, is_input) ==
    IF char = "\n" THEN InsertNewline(s, is_input)
    ELSE InsertVisible(s, char, IF s.grayed THEN TokenAborted ELSE token, is_input)

\* write_char remembering the input position before it goes to the following line
WriteCellRememberedFirst(s, char, token, is_input) ==
    InsertChar(NextLineIfFull(RememberInput(s, is_input), char), char, token, is_input)

\* write_char up to the second line prefix that follows a newline of the input
WriteCell(s, char, token, is_input) ==
    InsertChar(RememberInput(NextLineIfFull(s, char), is_input), char, token, is_input)

RECURSIVE write_char(_, _, _, _)
RECURSIVE write_highlighted(_, _, _)
RECURSIVE WriteText(_, _, _, _)

write_char(s, char, token, is_input) ==
    IF char = "\n" /\ is_input /\ ~IsNone(s.second_line_prefix_func)
    THEN write_highlighted(WriteCell(s, char, token, is_input),
                           s.second_line_prefix_func[1], FALSE)
    ELSE WriteCell(s, char, token, is_input)

\* write_highlighted, `for c in text`
WriteText(s, token, text, is_input) ==
    IF text = <<>> THEN s
    ELSE WriteText(write_char(s, Head(text), token, is_input), token, Tail(text), is_input)

write_highlighted(s, data, is_input) ==
    IF data = <<>> THEN s
    ELSE write_highlighted(WriteText(s, Head(data)[1], Head(data)[2], is_input),
                           Tail(data), is_input)

\* highlight_character: the cell of input position <<row, column>> gets the colours;
\* looking the row up creates it in the buffer.
HighlightCell(s, at, bgcolor, color) ==
    IF at[2] \in DOMAIN DictGet(s.buffer, at[1], <<>>)
    THEN [s EXCEPT !.buffer[at[1]][at[2]].style =
                Some(IF IsNone(@) THEN [token |-> "", bgcolor |-> bgcolor, color |-> color]
                     ELSE [@[1] EXCEPT !.bgcolor = bgcolor, !.color = color])]
    ELSE [s EXCEPT !.buffer = DictSet(@, at[1], DictGet(@, at[1], <<>>))]

highlight_character(s, row, column, bgcolor, color) ==
    IF <<row, column>> \in DOMAIN s.cursor_mappings
    THEN HighlightCell(s, s.cursor_mappings[<<row, column>>], bgcolor, color)
    ELSE s

\* output: the cells of a row from column c on
RECURSIVE OutputLine(_, _, _)
OutputLine(line_data, c, cols) ==
    IF c >= cols THEN <<>>
    ELSE <<CharOutput(DictGet(line_data, c, DefaultChar))>>
         \o OutputLine(line_data, c + CharWidth(DictGet(line_data, c, DefaultChar)), cols)

OutputRow(line_data) ==
    IF DOMAIN line_data = {} THEN <<>>
    ELSE OutputLine(line_data, 0, Max(DOMAIN line_data) + 1)

RECURSIVE OutputRows(_, _, _)
OutputRows(buffer, r, rows) ==
    IF r >= rows THEN <<>>
    ELSE OutputRow(DictGet(buffer, r, <<>>))
         \o (IF r # rows - 1 THEN <<CRLF>> ELSE <<>>)
         \o OutputRows(buffer, r + 1, rows)

output(s) == OutputRows(s.buffer, 0, Max(DOMAIN s.buffer) + 1)

-----------------------------------------------------------------------------
(* Renderer *)

\* RenderContext: prompt stands for what prompt.get_prompt(), get_second_line_prefix()
\* and get_help_tokens() return, text and cursor_position for code_obj.document.
RenderContext(prompt, second_line_prefix, help_tokens, text, cp, accept, abort, regions) ==
    [prompt |-> prompt, second_line_prefix |-> second_line_prefix,
     help_tokens |-> help_tokens, text |-> text, cursor_position |-> cp,
     accept |-> accept, abort |-> abort, highlight_regions |-> regions,
     code_obj |-> "Code"]

\* Code.get_tokens(): the tokens of the text, which concatenate to the text
get_tokens(text) == IF text = <<>> THEN <<>> ELSE << <<TokenText, text>> >>

TokenPunctuation == "Token.Punctuation"
TokenError == "Token.Error"

\* Code._get_tokens() of a PythonCode: what the lexer makes of a text of brackets, one
\* token per bracket
RECURSIVE Lexed(_)
Lexed(text) ==
    IF text = <<>> THEN <<>>
    ELSE << <<TokenPunctuation, <<Head(text)>>>> >> \o Lexed(Tail(text))

\* text in string
StrIn(text, string) == Occurrences(string, text) # {}

\* PythonCode._get_tokens, "Match found"; top is the text of the bracket on top of the
\* stack, '' if there is none
MatchFound(text, top) ==
    \/ text = <<")">> /\ top = <<"(">>
    \/ text = <<"}">> /\ top = <<"{">>
    \/ text = <<"]">> /\ top = <<"[">>

StackTop(result, stack) == IF stack # <<>> THEN result[stack[Len(stack)]][2] ELSE <<>>

\* result[index] = (Token.Error, text)
MarkedError(result, index) == [result EXCEPT ![index] = <<TokenError, @[2]>>]

\* PythonCode._get_tokens, the body of `for index, (token, text) in enumerate(result)`;
\* st is [result, stack], the stack holding pointers into result (from 1 here)
BracketStep(st, index, text) ==
    IF ~StrIn(text, <<"(", "{", "[", "]", "}", ")">>) THEN st
    ELSE IF StrIn(text, <<"(", "{", "[">>) THEN [st EXCEPT !.stack = Append(@, index)]
    ELSE IF MatchFound(text, StackTop(st.result, st.stack))
    THEN [st EXCEPT !.stack = SubSeq(@, 1, Len(@) - 1)]
    ELSE [st EXCEPT !.result = MarkedError(@, index)]

RECURSIVE BracketLoop(_, _)
BracketLoop(st, index) ==
    IF index > Len(st.result) THEN st
    ELSE BracketLoop(BracketStep(st, index, st.result[index][2]), index + 1)

\* PythonCode._get_tokens, leaving the brackets that are still on the stack as they are
UnclosedLeft(result, stack) == result

\* PythonCode._get_tokens, "Highlight unclosed tags that are still on the stack."
RECURSIVE UnclosedMarked(_, _)
UnclosedMarked(result, stack) ==
    IF stack = <<>> THEN result
    ELSE UnclosedMarked(MarkedError(result, Head(stack)), Tail(stack))

BracketsMarked(st) == UnclosedMarked(st.result, st.stack)

\* PythonCode._get_tokens()
PythonCodeTokens(text) ==
    BracketsMarked(BracketLoop([result |-> Lexed(text), stack |-> <<>>], 1))

\* render_context.code_obj.get_tokens()
CodeTokens(ctx) ==
    IF ctx.code_obj = "PythonCode" THEN PythonCodeTokens(ctx.text) ELSE get_tokens(ctx.text)

\* _get_new_screen, "Write prompt." and "Set second line prefix"
PromptWritten(ctx, columns) ==
    set_second_line_prefix(write_highlighted(Screen(columns, ctx.abort), ctx.prompt, FALSE),
                           Some(ctx.second_line_prefix))

\* _get_new_screen, "Write code object."
CodeWritten(ctx, s) ==
    set_second_line_prefix(save_input_pos(write_highlighted(s, CodeTokens(ctx), TRUE)),
                           None)

\* _get_new_screen, "Write help text."
HelpWritten(ctx, s) ==
    IF ~(ctx.accept \/ ctx.abort) /\ ctx.help_tokens # <<>>
    THEN write_highlighted(s, ctx.help_tokens, TRUE)
    ELSE s

\* _get_new_screen, `for i in range(start_column, end_column)`
RECURSIVE HighlightColumns(_, _, _, _)
HighlightColumns(s, row, i, end_column) ==
    IF i >= end_column THEN s
    ELSE HighlightColumns(highlight_character(s, row, i, "444444", "eeeeee"),
                          row, i + 1, end_column)

\* _get_new_screen, "Highlight regions"; Renderer.highlight_current_line is False.
RECURSIVE RegionsHighlighted(_, _)
RegionsHighlighted(regions, s) ==
    IF regions = <<>> THEN s
    ELSE RegionsHighlighted(Tail(regions),
            HighlightColumns(s, Head(regions)[1][1] - 1, Head(regions)[1][2],
                             Head(regions)[2][2]))

get_new_screen(ctx, columns) ==
    RegionsHighlighted(ctx.highlight_regions,
                       HelpWritten(ctx, CodeWritten(ctx, PromptWritten(ctx, columns))))

\* _render_to_str, "Move the cursor to the first line that was printed before and
\* erase everything below it."
Prologue(r) ==
    (IF r.cursor_line # 0 THEN <<CURSOR_UP(r.cursor_line)>> ELSE <<>>)
    \o <<CARRIAGE_RETURN, ERASE_DOWN>>

\* (document.cursor_position_row, document.cursor_position_col)
DocumentCursor(ctx) == <<cursor_position_row(ctx), cursor_position_col(ctx)>>

\* _render_to_str, "Move cursor to correct position.", cursor being the screen cell of
\* the document cursor
CursorMoved(s, cursor) ==
    (IF s.y - cursor[1] # 0 THEN <<CURSOR_UP(s.y - cursor[1])>> ELSE <<>>)
    \o (IF s.x > cursor[2] THEN <<CURSOR_BACKWARD(s.x - cursor[2])>> ELSE <<>>)
    \o (IF s.x < cursor[2] THEN <<CURSOR_FORWARD(cursor[2] - s.x)>> ELSE <<>>)

Epilogue(ctx, s) ==
    IF ctx.accept \/ ctx.abort THEN <<CRLF>>
    ELSE CursorMoved(s, s.cursor_mappings[DocumentCursor(ctx)])

\* What _render_to_str returns, s being the new screen.
render_to_str(r, ctx, s) == Prologue(r) \o output(s) \o Epilogue(ctx, s)

\* _render_to_str caching the lines of the paint also on accept or abort.
RenderedWithoutReset(ctx, s) ==
    [lines_in_use |-> s.y, cursor_line |-> s.cursor_mappings[DocumentCursor(ctx)][1]]

\* The Renderer after _render_to_str.
Rendered(ctx, s) ==
    IF ctx.accept \/ ctx.abort THEN [lines_in_use |-> 0, cursor_line |-> 0]
    ELSE [lines_in_use |-> s.y, cursor_line |-> s.cursor_mappings[DocumentCursor(ctx)][1]]

\* The terminal after the renderer r wrote `out`.  The row the cursor is on after the
\* prologue is the first row of the paint; `began` is that row counted from the first
\* row of the paint before.
TerminalPainted(term, start, out, body) ==
    [term EXCEPT !.written = out, !.began = start[1],
                 !.cursor = TerminalWrite(<<0, start[2]>>, body, term.columns)]

TerminalAfter(term, r, out) ==
    TerminalPainted(term, TerminalWrite(term.cursor, Prologue(r), term.columns), out,
                    SubSeq(out, Len(Prologue(r)) + 1, Len(out)))

\* render(render_context)
render(ctx) ==
    /\ renders < MaxRenders
    /\ renders' = renders + 1
    /\ render_context' = ctx
    /\ screen' = get_new_screen(ctx, terminal.columns)
    /\ renderer' = Rendered(ctx, screen')
    /\ terminal' = TerminalAfter(terminal, renderer, render_to_str(renderer, ctx, screen'))
    /\ UNCHANGED handler_vars
    /\ UNCHANGED history_vars
    /\ UNCHANGED python_vars

-----------------------------------------------------------------------------
(* SpecRender: the renderer painting texts with double-width glyphs and      *)
(* newlines on narrow terminals, the prompt, the help tokens and the width   *)
(* being those of the session                                                *)

RenderChars == {"a", "W", "\n"}
RenderTexts == UNION {[1..n -> RenderChars] : n \in 0..MaxRenderLen}
RenderColumns == {2, 3, 4}
RenderPrompts == {<< <<TokenPrompt, <<">">>>> >>, << <<TokenPrompt, <<">", ">">>>> >>}
RenderPrefixes == {<<>>, << <<TokenSecondLinePrefix, <<".">>>> >>}
RenderHelps == {<<>>, << <<TokenToolbar, <<"h">>>> >>, << <<TokenToolbar, <<"\n", "h">>>> >>}
RenderRegions == {<<>>, << << <<2, 0>>, <<2, 1>> >> >>}

\* The line changed, or the cursor moved: CommandLine renders the new document.
RenderEdit ==
    \E text \in RenderTexts : \E cp \in 0..Len(text) :
        /\ <<text, cp>> # <<render_context.text, render_context.cursor_position>>
        /\ render([render_context EXCEPT !.text = text, !.cursor_position = cp,
                                         !.accept = FALSE, !.abort = FALSE])

\* Nothing changed since the last render without accept or abort.
RenderAgain ==
    /\ renders > 0
    /\ ~(render_context.accept \/ render_context.abort)
    /\ render(render_context)

\* The input is accepted or aborted: the last render of a read_input paints the
\* document as it is, the key that ends the input changing nothing of it.
RenderEnd ==
    \E abort \in BOOLEAN :
        render([render_context EXCEPT !.accept = ~abort, !.abort = abort])

InitRender ==
    /\ NewHandler(Emacs, <<>>, 0, <<>>)
    /\ session = Unlogged
    /\ NoFileHistory
    /\ paste_mode = FALSE
    /\ multiline = FALSE
    /\ renderer = NewRenderer
    /\ renders = 0
    /\ \E columns \in RenderColumns :
          /\ terminal = [columns |-> columns, written |-> <<>>, cursor |-> <<0, 0>>,
                         began |-> 0]
          /\ screen = Screen(columns, FALSE)
    /\ \E prompt \in RenderPrompts : \E prefix \in RenderPrefixes :
       \E help \in RenderHelps : \E regions \in RenderRegions :
          render_context = RenderContext(prompt, prefix, help, <<>>, 0, FALSE, FALSE,
                                         regions)

NextRender == RenderEdit \/ RenderAgain \/ RenderEnd

SpecRender == InitRender /\ [][NextRender]_vars

-----------------------------------------------------------------------------
(* FileHistory (src/prompt_toolkit/history.py).  A file is the sequence of its *)
(* characters.                                                              *)

\* string.index('\n') + 1
FirstNewline(string) == Min({i \in 1..Len(string) : string[i] = "\n"})

\* string.split('\n')
RECURSIVE StrSplit(_)
StrSplit(string) ==
    IF \A i \in 1..Len(string) : string[i] # "\n" THEN <<string>>
    ELSE <<SubSeq(string, 1, FirstNewline(string) - 1)>>
         \o StrSplit(SubSeq(string, FirstNewline(string) + 1, Len(string)))

\* `for line in f`: the lines of the file, each with the newline that ends it
RECURSIVE FileLines(_)
FileLines(f) ==
    IF f = <<>> THEN <<>>
    ELSE IF \A i \in 1..Len(f) : f[i] # "\n" THEN <<f>>
    ELSE <<SubSeq(f, 1, FirstNewline(f))>>
         \o FileLines(SubSeq(f, FirstNewline(f) + 1, Len(f)))

\* ''.join(lines)
RECURSIVE StrJoin(_)
StrJoin(lines) == IF lines = <<>> THEN <<>> ELSE Head(lines) \o StrJoin(Tail(lines))

\* str(datetime.datetime.now()): one character stands for the time stamp
TimeStamp == <<"T">>

\* append, `for line in string.split('\n'): f.write('+%s\n' % line)`
RECURSIVE WriteLines(_)
WriteLines(lines) ==
    IF lines = <<>> THEN <<>>
    ELSE <<"+">> \o Head(lines) \o <<"\n">> \o WriteLines(Tail(lines))

\* What append writes at the end of the file.
Record(string) ==
    <<"\n", "#", " ">> \o TimeStamp \o <<"\n">> \o WriteLines(StrSplit(string))

\* add() joining the lines and keeping the trailing newline
addWholeLines(lines, strings) ==
    IF lines # <<>> THEN Append(strings, StrJoin(lines)) ELSE strings

\* _load, add(): "Join and drop trailing newline."
add(lines, strings) ==
    IF lines # <<>>
    THEN Append(strings, Slice(StrJoin(lines), 0, Len(StrJoin(lines)) - 1))
    ELSE strings

\* _load, `for line in f`, then the last add()
RECURSIVE LoadLines(_, _, _)
LoadLines(flines, lines, strings) ==
    IF flines = <<>> THEN add(lines, strings)
    ELSE IF Head(flines)[1] = "+"
    THEN LoadLines(Tail(flines), Append(lines, Tail(Head(flines))), strings)
    ELSE LoadLines(Tail(flines), <<>>, add(lines, strings))

\* _load: the strings of a FileHistory constructed on the file
load(file) == IF IsNone(file) THEN <<>> ELSE LoadLines(FileLines(file[1]), <<>>, <<>>)

\* open(self.filename, 'a') and the writes: the file is created if it does not exist
FileAppended(file, written) == Some((IF IsNone(file) THEN <<>> ELSE file[1]) \o written)

\* FileHistory.append(string)
HistoryAppend(string) ==
    /\ IsNone(reloaded)
    /\ Len(file_history) < MaxAppends
    /\ file_history' = Append(file_history, string)
    /\ history_file' = FileAppended(history_file, Record(string))
    /\ UNCHANGED <<reloaded, handler_vars, renderer_vars, python_vars>>

\* FileHistory(filename), constructed on the file after the appends
HistoryLoad ==
    /\ IsNone(reloaded)
    /\ reloaded' = Some(load(history_file))
    /\ UNCHANGED <<history_file, file_history, handler_vars, renderer_vars, python_vars>>

-----------------------------------------------------------------------------
(* SpecFile: strings appended to a FileHistory on a file that did not exist,  *)
(* and a FileHistory constructed on the file afterwards                      *)

HistoryChars == {"a", "\n", "+", "#"}
HistoryStrings == UNION {[1..n -> HistoryChars] : n \in 0..MaxStringLen}

AppendString == \E string \in HistoryStrings : HistoryAppend(string)

InitFile == InitHandler(Emacs, <<>>, 0, <<>>)

NextFile == AppendString \/ HistoryLoad

SpecFile == InitFile /\ [][NextFile]_vars

-----------------------------------------------------------------------------
(* The Python REPL (src/prompt_toolkit/contrib/repl.py): PythonLine           *)

\* s.rstrip()
RECURSIVE rstrip(_)
rstrip(s) ==
    IF s # <<>> /\ IsSpace(s[Len(s)]) THEN rstrip(SubSeq(s, 1, Len(s) - 1)) ELSE s

\* newline, "Copy whitespace from current line"
RECURSIVE CopyWhitespace(_, _)
CopyWhitespace(l, current) ==
    IF current = <<>> THEN l
    ELSE IF IsSpace(Head(current))
    THEN CopyWhitespace(insert_text(l, <<Head(current)>>, FALSE, TRUE), Tail(current))
    ELSE l

\* newline, `for x in range(4): insert_text(' ')`
RECURSIVE InsertSpaces(_, _)
InsertSpaces(l, n) ==
    IF n = 0 THEN l ELSE InsertSpaces(insert_text(l, <<" ">>, FALSE, TRUE), n - 1)

\* newline, "If the last line ends with a colon, add four extra spaces."
ExtraSpaces(l, current) ==
    IF current # <<>> /\ current[Len(current)] = ":" THEN InsertSpaces(l, 4)
    ELSE l

\* newline, "Go to new line, but also add indentation.", current being the current
\* line before the cursor, rstripped
IndentedNewline(l, current) ==
    ExtraSpaces(CopyWhitespace(insert_text(l, <<"\n">>, FALSE, TRUE), current), current)

\* PythonLine.newline()
PythonLineNewline(l, paste) ==
    IF paste \/ current_line_after_cursor(l) # <<>>
    THEN insert_text(l, <<"\n">>, FALSE, TRUE)
    ELSE IndentedNewline(l, rstrip(current_line_before_cursor(l)))

\* A call of the Python REPL, counted as a key event.
PythonCalled(l, paste, multi) ==
    /\ keys_read < MaxPythonEvents
    /\ keys_read' = keys_read + 1
    /\ line' = l
    /\ paste_mode' = paste
    /\ multiline' = multi
    /\ UNCHANGED <<handler_cls, second_tab, last_call, arg_count, escape_pressed,
                   ctrl_x_pressed, vi_mode, current_handles, one_character_callback,
                   fired, raised, tab_call, session, returned>>
    /\ UNCHANGED <<renderer_vars, history_vars>>

\* F6: "Enable/Disable paste mode."
F6 == PythonCalled(line, ~paste_mode, IF ~paste_mode THEN TRUE ELSE multiline)

\* F7
F7 == PythonCalled(line, paste_mode, ~multiline)

\* self._line.newline()
NewlineCalled == PythonCalled(PythonLineNewline(line, paste_mode), paste_mode, multiline)

-----------------------------------------------------------------------------
(* SpecPython: newline() of the PythonLine on short texts and on "    if True:" *)

PythonChars == {" ", ":", "a", "\n"}
IfTrue == <<" ", " ", " ", " ", "i", "f", " ", "T", "r", "u", "e", ":">>
PythonTexts == {IfTrue} \cup UNION {[1..n -> PythonChars] : n \in 0..MaxPythonLen}

InitPython ==
    \E t \in PythonTexts : \E cp \in 0..Len(t) :
        /\ NewHandler(Emacs, t, cp, <<>>)
        /\ session = Unlogged
        /\ renderer = NewRenderer
        /\ screen = None
        /\ render_context = None
        /\ terminal = [columns |-> 0, written |-> <<>>, cursor |-> <<0, 0>>, began |-> 0]
        /\ renders = 0
        /\ NoFileHistory
        /\ paste_mode = FALSE
        /\ multiline = (\E i \in 1..Len(t) : t[i] = "\n")

NextPython == F6 \/ F7 \/ NewlineCalled

SpecPython == InitPython /\ [][NextPython]_vars

-----------------------------------------------------------------------------
(* The Python REPL: PythonViInputStreamHandler, PythonEmacsInputStreamHandler *)

PythonVi == "PythonViInputStreamHandler"
PythonEmacs == "PythonEmacsInputStreamHandler"

\* The state a call of a Python handler acts on: the handler and the two flags of
\* its PythonLine.
PythonHandler == [h |-> Handler, paste_mode |-> paste_mode, multiline |-> multiline]

\* PythonLine._colon_before_cursor()
colon_before_cursor(l) ==
    text_before_cursor(l) # <<>> /\ text_before_cursor(l)[Len(text_before_cursor(l))] = ":"

\* _auto_enable_multiline, `text_before_cursor[-1:] == '\\'`
backslash_before_cursor(l) ==
    text_before_cursor(l) # <<>> /\ text_before_cursor(l)[Len(text_before_cursor(l))] = "\\"

\* re.sub(r'''('[^']*'|"[^"]*")''', '', text)
RECURSIVE StripQuoted(_)
StripQuoted(text) ==
    IF text = <<>> THEN <<>>
    ELSE IF Head(text) \in {"'", "\""} /\ (\E j \in 2..Len(text) : text[j] = Head(text))
    THEN StripQuoted(SubSeq(text, Min({j \in 2..Len(text) : text[j] = Head(text)}) + 1,
                            Len(text)))
    ELSE <<Head(text)>> \o StripQuoted(Tail(text))

\* _has_unclosed_brackets, the test before `stack.pop()`
Closes(c, top) ==
    \/ (c = "[" /\ top = "]")
    \/ (c = "{" /\ top = "}")
    \/ (c = "(" /\ top = ")")

\* _has_unclosed_brackets, `for c in reversed(text)` on the text still to be read
RECURSIVE UnclosedFrom(_, _)
UnclosedFrom(text, stack) ==
    IF text = <<>> THEN FALSE
    ELSE LET c == text[Len(text)]
             rest == SubSeq(text, 1, Len(text) - 1)
         IN  IF c \in {"]", ")", "}"} THEN UnclosedFrom(rest, Append(stack, c))
             ELSE IF c \in {"[", "(", "{"}
             THEN (IF stack # <<>>
                   THEN (IF Closes(c, stack[Len(stack)])
                         THEN UnclosedFrom(rest, SubSeq(stack, 1, Len(stack) - 1))
                         ELSE UnclosedFrom(rest, stack))
                   ELSE TRUE)
             ELSE UnclosedFrom(rest, stack)

\* PythonLine._has_unclosed_brackets()
has_unclosed_brackets(l) == UnclosedFrom(StripQuoted(text_before_cursor(l)), <<>>)

\* _PythonInputStreamHandlerMixin._auto_enable_multiline()
auto_enable_multiline(p) ==
    IF cursor_at_the_end(p.h.line)
       /\ (colon_before_cursor(p.h.line) \/ has_unclosed_brackets(p.h.line))
    THEN [p EXCEPT !.multiline = TRUE]
    ELSE IF cursor_at_the_end(p.h.line) /\ backslash_before_cursor(p.h.line)
    THEN [p EXCEPT !.multiline = TRUE]
    ELSE p

\* self._line.newline() and self._line.return_input() of a Python handler
PythonNewline(p) == [p EXCEPT !.h = OnLine(p.h, PythonLineNewline(p.h.line, p.paste_mode))]
PythonReturnInput(p) == [p EXCEPT !.h = Raise(p.h, "ReturnInput")]

\* PythonViInputStreamHandler.enter, after _auto_enable_multiline
PythonViEntered(p) ==
    IF p.multiline
    THEN (IF p.h.vi_mode = NAVIGATION THEN PythonReturnInput(p) ELSE PythonNewline(p))
    ELSE PythonReturnInput(p)

\* PythonViInputStreamHandler.enter
PythonViEnter(p) == PythonViEntered(auto_enable_multiline(p))

\* PythonEmacsInputStreamHandler.enter, after _auto_enable_multiline
PythonEmacsEntered(p) == IF p.multiline THEN PythonNewline(p) ELSE PythonReturnInput(p)

\* PythonEmacsInputStreamHandler.enter
PythonEmacsEnter(p) == PythonEmacsEntered(auto_enable_multiline(p))

\* _PythonInputStreamHandlerMixin.tab
PythonTab(p, candidates) ==
    IF \A i \in 1..Len(current_line_before_cursor(p.h.line)) :
           IsSpace(current_line_before_cursor(p.h.line)[i])
    THEN [p EXCEPT !.h = OnLine(p.h, insert_text(p.h.line, <<" ", " ", " ", " ">>, FALSE, TRUE))]
    ELSE [p EXCEPT !.h = BaseTab(p.h, candidates)]

\* _PythonInputStreamHandlerMixin.F6, F7
PythonF6(p) ==
    [p EXCEPT !.paste_mode = ~p.paste_mode,
              !.multiline = IF ~p.paste_mode THEN TRUE ELSE p.multiline]
PythonF7(p) == [p EXCEPT !.multiline = ~p.multiline]

\* The method a name resolves to on a Python handler of class cls, applied: the
\* methods of the mixin and of the class, else the method of the base handler.
PythonDispatch(cls, ev, p, env) ==
    CASE ev[1] = "F6" -> PythonF6(p)
      [] ev[1] = "F7" -> PythonF7(p)
      [] ev[1] \in {"enter", "ctrl_j", "ctrl_m"} ->
            IF cls = PythonVi THEN PythonViEnter(p) ELSE PythonEmacsEnter(p)
      [] ev[1] \in {"tab", "ctrl_i"} -> PythonTab(p, env.candidates)
      [] ev[1] \in {"alt_enter", "alt_ctrl_j", "alt_ctrl_m"} /\ cls = PythonEmacs ->
            PythonReturnInput(p)
      [] OTHER ->
            [p EXCEPT !.h = IF cls = PythonVi THEN ViDispatch(ev, p.h, env)
                            ELSE EmacsDispatch(ev, p.h, env)]

\* PythonLine.reset() clears the flags of the fresh Line after ReturnInput or Abort.
PythonLineReset(p) ==
    IF p.h.raised \in {"Abort", "ReturnInput"}
    THEN [p EXCEPT !.paste_mode = FALSE, !.multiline = FALSE]
    ELSE p

\* InputStreamHandler.__call__(name, *a) on a PythonViInputStreamHandler
PythonViCall(ev, p, env) ==
    LET p1 == PythonDispatch(PythonVi, ev, [p EXCEPT !.h = CallStart(ev[1], p.h)], env)
    IN  PythonLineReset([p1 EXCEPT !.h = ViCalled(ev[1], p1.h)])

\* EmacsInputStreamHandler.__call__(name, *a) on a PythonEmacsInputStreamHandler
PythonEmacsCall(ev, p, env) ==
    LET composed == EmacsComposedEvent(ev, p.h)
        h0 == CallStart(composed[1], [p.h EXCEPT !.escape_pressed = FALSE])
        p1 == PythonDispatch(PythonEmacs, composed, [p EXCEPT !.h = h0], env)
    IN  PythonLineReset([p1 EXCEPT !.h = EmacsAfterCall(composed[1], EmacsKeepsArgCount(ev, p.h),
                                                       EmacsCalled(composed[1], p1.h))])

\* The state after the call p of a Python handler.
PythonCommit(p, B) ==
    /\ Committed(p.h, B)
    /\ paste_mode' = p.paste_mode
    /\ multiline' = p.multiline
    /\ UNCHANGED returned
    /\ UNCHANGED renderer_vars
    /\ UNCHANGED history_vars

\* The event ev reaches the Python handler.
PythonEvent(ev, B) ==
    /\ \/ /\ handler_cls = PythonVi
          /\ PythonCommit(PythonViCall(ev, PythonHandler, NoAnswers), B)
       \/ /\ handler_cls = PythonEmacs
          /\ PythonCommit(PythonEmacsCall(ev, PythonHandler, NoAnswers), B)
    /\ Logged(ev)

-----------------------------------------------------------------------------
(* SpecRepl: the Python handlers on short texts of brackets, quotes, colons   *)
(* and backslashes                                                            *)

ReplChars == {"(", ")", "]", ":", "\\", "'", "a"}
ReplTexts == UNION {[1..n -> ReplChars] : n \in 0..MaxReplLen}
ReplKeys == {"enter", "escape", "F7"}
ReplTyped == {"a"}
ReplBounds == Bounds(MaxReplText, MaxReplEvents, MaxReplEvents, 0, MaxReplEvents)

ReplKey == \E name \in ReplKeys : PythonEvent(<<name>>, ReplBounds)
ReplChar == \E c \in ReplTyped : PythonEvent(<<"insert_char", c>>, ReplBounds)

InitRepl ==
    \E cls \in {PythonVi, PythonEmacs} : \E t \in ReplTexts : \E cp \in 0..Len(t) :
        InitSession(cls, t, cp, <<>>, NewLog(t, cp))

NextRepl == ReplKey \/ ReplChar

SpecRepl == InitRepl /\ [][NextRepl]_vars

-----------------------------------------------------------------------------
(* SpecBrackets: texts of brackets, tokenized by the PythonCode and painted   *)

BracketChars == {"(", ")", "[", "]"}
BracketTexts == UNION {[1..n -> BracketChars] : n \in 0..MaxBrackets}
BracketColumns == {8}

\* The brackets changed: CommandLine renders the new document.
RenderBrackets ==
    \E text \in BracketTexts :
        /\ text # render_context.text
        /\ render([render_context EXCEPT !.text = text, !.cursor_position = Len(text)])

InitBrackets ==
    /\ NewHandler(Emacs, <<>>, 0, <<>>)
    /\ session = Unlogged
    /\ NoFileHistory
    /\ paste_mode = FALSE
    /\ multiline = FALSE
    /\ renderer = NewRenderer
    /\ renders = 0
    /\ \E columns \in BracketColumns :
          /\ terminal = [columns |-> columns, written |-> <<>>, cursor |-> <<0, 0>>,
                         began |-> 0]
          /\ screen = Screen(columns, FALSE)
    /\ \E prompt \in RenderPrompts :
          render_context =
              [RenderContext(prompt, <<>>, <<>>, <<>>, 0, FALSE, FALSE, <<>>)
                  EXCEPT !.code_obj = "PythonCode"]

NextBrackets == RenderBrackets

SpecBrackets == InitBrackets /\ [][NextBrackets]_vars

-----------------------------------------------------------------------------
(* SpecBrowse: browsing the history ["alpha", "beta", "algol"] from the text   *)
(* "al", and editing, through either handler                                   *)

BrowseHistory ==
    << <<"a", "l", "p", "h", "a">>, <<"b", "e", "t", "a">>, <<"a", "l", "g", "o", "l">> >>
BrowseText == <<"a", "l">>
BrowseKeys == {"ctrl_p", "ctrl_n", "page_up", "page_down"}
BrowseEditKeys == {"ctrl_h"}
BrowseChars == {"l"}
BrowseBounds == Bounds(MaxBrowseLen, MaxUndo, MaxArg, MaxPattern, MaxBrowseEvents)

BrowseViKey == \E name \in BrowseKeys \cup BrowseEditKeys : ViKeyEvent(name, BrowseBounds)
BrowseViChar == \E c \in BrowseChars : ViCharEvent(c, BrowseBounds)
BrowseEmacsKey == \E name \in BrowseKeys \cup BrowseEditKeys : EmacsKeyEvent(name, BrowseBounds)
BrowseEmacsChar == \E c \in BrowseChars : EmacsCharEvent(c, BrowseBounds)

InitBrowse ==
    \E cls \in {Vi, Emacs} : \E cp \in 0..Len(BrowseText) :
        InitSession(cls, BrowseText, cp, BrowseHistory, NewLog(BrowseText, cp))

NextBrowse == BrowseViKey \/ BrowseViChar \/ BrowseEmacsKey \/ BrowseEmacsChar

SpecBrowse == InitBrowse /\ [][NextBrowse]_vars

-----------------------------------------------------------------------------
(* SpecSearch: incremental search over the history ["banana", "apple"] from the *)
(* text "hello", through either handler                                        *)

SearchHistory == << <<"b", "a", "n", "a", "n", "a">>, <<"a", "p", "p", "l", "e">> >>
SearchText == <<"h", "e", "l", "l", "o">>
SearchKeys == {"ctrl_r", "ctrl_s", "ctrl_g", "ctrl_b"}
SearchChars == {"a", "n", "z"}
SearchBounds == Bounds(MaxSearchLen, MaxUndo, MaxArg, MaxSearchPattern, MaxSearchEvents)

SearchViKey == \E name \in SearchKeys : ViKeyEvent(name, SearchBounds)
SearchViChar == \E c \in SearchChars : ViCharEvent(c, SearchBounds)
SearchEmacsKey == \E name \in SearchKeys : EmacsKeyEvent(name, SearchBounds)
SearchEmacsChar == \E c \in SearchChars : EmacsCharEvent(c, SearchBounds)

InitSearch ==
    \E cls \in {Vi, Emacs} : \E cp \in {0, 2, Len(SearchText)} :
        InitSession(cls, SearchText, cp, SearchHistory, NewLog(SearchText, cp))

NextSearch == SearchViKey \/ SearchViChar \/ SearchEmacsKey \/ SearchEmacsChar

SpecSearch == InitSearch /\ [][NextSearch]_vars

-----------------------------------------------------------------------------
(* SpecRestore: editing the text "ab" and undoing, through either handler       *)

RestoreText == <<"a", "b">>
RestoreEmacsKeys == {"ctrl_underscore", "ctrl_x", "ctrl_u", "ctrl_h", "ctrl_b"}
RestoreViKeys == {"escape", "ctrl_h"}
RestoreTextChars == {"c"}
RestoreNavChars == {"u", "i", "2"}
RestoreBounds == Bounds(MaxRestoreLen, MaxSnapshots, MaxArg, MaxPattern, MaxRestoreEvents)

RestoreEmacsKey == \E name \in RestoreEmacsKeys : EmacsKeyEvent(name, RestoreBounds)
RestoreEmacsChar == \E c \in RestoreTextChars : EmacsCharEvent(c, RestoreBounds)
RestoreViKey == \E name \in RestoreViKeys : ViKeyEvent(name, RestoreBounds)
RestoreViChar ==
    \E c \in (IF ViTyping THEN RestoreTextChars ELSE RestoreNavChars) :
        ViCharEvent(c, RestoreBounds)

InitRestore ==
    \E cls \in {Vi, Emacs} : \E cp \in 0..Len(RestoreText) :
        InitSession(cls, RestoreText, cp, <<>>, NewLog(RestoreText, cp))

NextRestore == RestoreEmacsKey \/ RestoreEmacsChar \/ RestoreViKey \/ RestoreViChar

SpecRestore == InitRestore /\ [][NextRestore]_vars

-----------------------------------------------------------------------------
(* shortcuts.get_input over CommandLine.read_input *)

RAISE_EXCEPTION == "AbortAction.RAISE_EXCEPTION"
RETURN_NONE == "AbortAction.RETURN_NONE"
IGNORE == "AbortAction.IGNORE"

Returns(value) == <<"return", value>>
Raises(signal) == <<"raise", signal>>

\* What read_input does with the signal an event raised: it goes on reading (<<>>),
\* returns, or lets the signal through.
ActOn(action, signal) ==
    IF action = RAISE_EXCEPTION THEN Raises(signal)
    ELSE IF action = RETURN_NONE THEN Returns(None)
    ELSE <<>>

\* CommandLine.read_input(on_abort, on_exit) after the call of the handler left h:
\* the Document of the accepted text, or what on_abort and on_exit say.
read_input(on_abort, on_exit, h) ==
    IF h.raised = "ReturnInput" THEN Returns(Some(h.line.text))
    ELSE IF h.raised = "Abort" THEN ActOn(on_abort, "Abort")
    ELSE IF h.raised = "Exit" THEN ActOn(on_exit, "Exit")
    ELSE <<>>

\* shortcuts.get_input(message, raise_exception_on_abort), after the call of the
\* handler left h: `if code_obj: return code_obj.text`, else None
get_input(raise_exception_on_abort, h) ==
    read_input(IF raise_exception_on_abort THEN RAISE_EXCEPTION ELSE RETURN_NONE,
               IGNORE, h)

\* An event read by get_input: the handler is called, and get_input ends or reads on.
InputRead(ev, h, B) ==
    /\ returned = <<>>
    /\ Committed(h, B)
    /\ \E raise_exception_on_abort \in BOOLEAN :
           returned' = get_input(raise_exception_on_abort, h)
    /\ Logged(ev)
    /\ UNCHANGED <<renderer_vars, history_vars, python_vars>>

-----------------------------------------------------------------------------
(* SpecInput: get_input reading keys through either handler *)

InputKeys == {"ctrl_d", "ctrl_c", "enter", "escape"}
InputChars == {"a"}
InputBounds == Bounds(MaxInputLen, MaxUndo, MaxArg, MaxPattern, MaxInputEvents)

InputViKey ==
    \E name \in InputKeys :
        handler_cls = Vi /\ InputRead(<<name>>, ViCall(<<name>>, Handler, NoAnswers), InputBounds)
InputViChar ==
    \E c \in InputChars :
        /\ handler_cls = Vi
        /\ InputRead(<<"insert_char", c>>, ViCall(<<"insert_char", c>>, Handler, NoAnswers),
                     InputBounds)
InputEmacsKey ==
    \E name \in InputKeys :
        /\ handler_cls = Emacs
        /\ InputRead(<<name>>, EmacsCall(<<name>>, Handler, NoAnswers), InputBounds)
InputEmacsChar ==
    \E c \in InputChars :
        /\ handler_cls = Emacs
        /\ InputRead(<<"insert_char", c>>, EmacsCall(<<"insert_char", c>>, Handler, NoAnswers),
                     InputBounds)

InitInput == \E cls \in {Vi, Emacs} : InitSession(cls, <<>>, 0, <<>>, NewLog(<<>>, 0))

NextInput == InputViKey \/ InputViChar \/ InputEmacsKey \/ InputEmacsChar

SpecInput == InitInput /\ [][NextInput]_vars

-----------------------------------------------------------------------------
(* Properties *)

ViNavigating == handler_cls = Vi /\ vi_mode = NAVIGATION
\* A character typed now goes to the navigation table.
Dispatching == ViNavigating /\ ~HasCallback(one_character_callback)
FullTable == current_handles = all_navigation_handles

\* C1: after any sequence of key events through the Emacs or the Vi handler the
\* cursor lies within the text: 0 <= cursor_position <= len(text).
CursorWithinText == line.cursor_position >= 0 /\ line.cursor_position <= Len(line.text)
\* Vi L has put the cursor at the end of a text it did not start at the end of.
CursorSetByL ==
    /\ fired = << <<"L">> >>
    /\ line.cursor_position = Len(line.text)
    /\ Len(line.text) = MaxLen

\* C2: a Vi handler starts in INSERT mode, and escape, in whichever mode, leaves it
\* in NAVIGATION mode with no arg count and the full navigation table.
ViStartsInInsert == handler_cls = Vi /\ vi_mode = INSERT
EscapeLeavesNavigation ==
    ViKeyEvent("escape", SpecBounds)
        => /\ vi_mode' = NAVIGATION
           /\ arg_count' = None
           /\ current_handles' = all_navigation_handles
EscapeToNavigation == ViStartsInInsert /\ [][EscapeLeavesNavigation]_vars
\* Escape has been pressed a second time, after other keys.
EscapedAgain ==
    /\ last_call = "escape"
    /\ vi_mode = NAVIGATION
    /\ IsNone(arg_count)
    /\ FullTable
    /\ keys_read = MaxEvents

\* The step is a character reaching the Vi handler.
ViCharTyped == handler_cls = Vi /\ last_call' = "insert_char" /\ keys_read' = keys_read + 1
Typed(c) == ViCharEvent(c, SpecBounds)

\* C3: in NAVIGATION mode i, I, a, A, s, o, O and the change commands cc, cw, ce, c$,
\* C and S leave the handler in INSERT mode, R leaves it in REPLACE mode, and no
\* other navigation key changes the mode.
ClaimedInsertKeys ==
    {<<"i">>, <<"I">>, <<"a">>, <<"A">>, <<"s">>, <<"o">>, <<"O">>, <<"c", "c">>,
     <<"c", "w">>, <<"c", "e">>, <<"c", "$">>, <<"C">>, <<"S">>}
ClaimedMode(key, mode) ==
    IF key \in ClaimedInsertKeys THEN INSERT
    ELSE IF key = <<"R">> THEN REPLACE
    ELSE mode
KeyDecidesMode ==
    (Dispatching /\ ViCharTyped /\ fired' # <<>>)
        => vi_mode' = ClaimedMode(fired'[1], vi_mode)
NavigationKeysSetMode == [][KeyDecidesMode]_vars

\* C4: in NAVIGATION mode on the full table the first character of a two-character
\* key changes neither the Line nor the mode and narrows the table to the keys that
\* start with it; the character completing a key fires that key's handler once and
\* brings the full table back.
TwoCharFirst == {"c", "d", "y", ">", "<"}
NarrowedTo(c) == {[key |-> Tail(k), handle |-> k] : k \in {x \in DoubleKeys : x[1] = c}}
FirstCharNarrows ==
    (Dispatching /\ FullTable /\ ViCharTyped)
        => \A c \in TwoCharFirst :
               Typed(c) => /\ line' = line
                           /\ vi_mode' = vi_mode
                           /\ fired' = <<>>
                           /\ current_handles' = NarrowedTo(c)
SecondCharFires ==
    (Dispatching /\ ~FullTable /\ ViCharTyped)
        => \A k \in DoubleKeys :
               (current_handles = NarrowedTo(k[1]) /\ Typed(k[2]))
                   => /\ fired' = <<k>>
                      /\ current_handles' = all_navigation_handles
TwoCharKeys == [][FirstCharNarrows /\ SecondCharFires]_vars
\* dw has been typed and has deleted a word.
TwoCharKeyFired ==
    /\ fired = << <<"d", "w">> >>
    /\ FullTable
    /\ line.clipboard.data # <<>>

\* C5: in NAVIGATION mode a character after which the characters typed are no
\* prefix of a registered key brings the full table back, fires no handler and
\* leaves arg_count as it was.
RegisteredKeys == {<<c>> : c \in SingleKeys} \cup DoubleKeys
\* The characters of a key typed so far: what the narrowed table has dropped.
TypedSoFar ==
    IF current_handles = {} \/ FullTable THEN <<>>
    ELSE LET e == CHOOSE x \in current_handles : TRUE
         IN  Slice(e.handle, 0, Len(e.handle) - Len(e.key))
\* No key has more than two characters: p of one character is a prefix when a key
\* starts with it, p of two when it is a key.
FirstChars == {k[1] : k \in RegisteredKeys}
PrefixOfKey(p) == IF Len(p) = 1 THEN p[1] \in FirstChars ELSE p \in RegisteredKeys
\* Digits build the arg count before the table is looked at.
CountDigit(c) == c \in {"1", "2", "3", "4", "5", "6", "7", "8", "9"} \/ (c = "0" /\ ~IsNone(arg_count))
NoMatchResets ==
    (Dispatching /\ ViCharTyped)
        => \A c \in NavChars :
               (~CountDigit(c) /\ ~PrefixOfKey(TypedSoFar \o <<c>>) /\ Typed(c))
                   => /\ FullTable'
                      /\ fired' = <<>>
                      /\ arg_count' = arg_count
NoMatchBackToFullTable == [][NoMatchResets]_vars
\* A count and then a character bound to nothing: the count is still there.
NoMatchKeptCount ==
    /\ Dispatching
    /\ keys_read = 3
    /\ last_call = "insert_char"
    /\ fired = <<>>
    /\ FullTable
    /\ arg_count = Some(2)
    /\ one_character_callback = NoneCallback

\* C6: in the Vi handler arg_count is none or an integer in 1..999999; in
\* NAVIGATION mode a digit 1-9, and 0 once a count is under way, appends a decimal
\* digit; a handler that fires gets arg_count, or 1 for none, and leaves it none.
CountTyped(c) == ViCharEvent(c, CountBounds)
ArgCountInRange ==
    IF IsNone(arg_count) THEN TRUE ELSE arg_count[1] >= 1 /\ arg_count[1] <= 999999
CountSoFar == IF IsNone(arg_count) THEN 0 ELSE arg_count[1]
CountGiven == IF IsNone(arg_count) THEN 1 ELSE arg_count[1]
DigitAppends ==
    (Dispatching /\ ViCharTyped)
        => \A d \in CountChars \cap {"0", "1", "3"} :
               (CountDigit(d) /\ CountTyped(d) /\ CountSoFar * 10 + DigitValue(d) <= 999999)
                   => /\ arg_count' = Some(CountSoFar * 10 + DigitValue(d))
                      /\ fired' = <<>>
                      /\ line'.cursor_position = line.cursor_position
\* The count shows in what l and h do: that many characters right or left, as far
\* as the text goes.
FiredWithCount ==
    (Dispatching /\ ViCharTyped /\ fired' # <<>>)
        => /\ arg_count' = None
           /\ fired' = << <<"l">> >>
                 => line'.cursor_position = Min({line.cursor_position + CountGiven, Len(line.text)})
           /\ fired' = << <<"h">> >>
                 => line'.cursor_position = Max({line.cursor_position - CountGiven, 0})
ArgCountBuilt == []ArgCountInRange /\ [][DigitAppends /\ FiredWithCount]_vars
\* Six digits have been typed.
SixDigitCount == Dispatching /\ arg_count = Some(333333)

\* C7: on "one two three four" with the cursor at 0 in INSERT mode, escape, 3, w end
\* in NAVIGATION mode with the cursor at 14; w after the count n moves the cursor as
\* n calls of cursor_word_forward do, to the n-th word beginning after it.
WordsAhead == {p \in WordStarts(line.text) : p > line.cursor_position}
NthWordAhead(n) ==
    IF WordsAhead = {} THEN line.cursor_position
    ELSE IF Cardinality(WordsAhead) <= n THEN Max(WordsAhead)
    ELSE CHOOSE p \in WordsAhead : Cardinality({q \in WordsAhead : q < p}) = n - 1
ScenarioEscape ==
    (keys_read = 0 /\ ViKeyEvent("escape", CountBounds))
        => vi_mode' = NAVIGATION /\ line'.cursor_position = 0 /\ arg_count' = None
ScenarioThree ==
    (keys_read = 1 /\ vi_mode = NAVIGATION /\ CountTyped("3"))
        => vi_mode' = NAVIGATION /\ line'.cursor_position = 0 /\ arg_count' = Some(3)
ScenarioW ==
    (keys_read = 2 /\ vi_mode = NAVIGATION /\ line.cursor_position = 0
        /\ arg_count = Some(3) /\ CountTyped("w"))
        => vi_mode' = NAVIGATION /\ line'.cursor_position = 14
WordForwardCounted ==
    (Dispatching /\ FullTable /\ CountTyped("w"))
        => /\ line'.cursor_position = NthWordAhead(CountGiven)
           /\ line'.text = line.text
CountedWordMotion ==
    [][ScenarioEscape /\ ScenarioThree /\ ScenarioW /\ WordForwardCounted]_vars
\* escape, 3, w have brought the cursor to the f of four.
ThreeWordsForward ==
    /\ keys_read = 3
    /\ vi_mode = NAVIGATION
    /\ fired = << <<"w">> >>
    /\ line.text = ScenarioText
    /\ line.cursor_position = 14

\* C8: in NAVIGATION mode the character after f, F, t, T or r goes to the pending
\* one-character callback and not to the table: no handler fires, arg_count gets no
\* digit, and the callback is cleared.
CallbackKeys == {<<"f">>, <<"F">>, <<"t">>, <<"T">>, <<"r">>}
CharGoesToCallback ==
    (ViNavigating /\ fired # <<>> /\ ViCharTyped)
        => (fired[1] \in CallbackKeys
                => /\ fired' = <<>>
                   /\ arg_count' = arg_count
                   /\ current_handles' = current_handles
                   /\ ~HasCallback(one_character_callback'))
NextCharToCallback == [][CharGoesToCallback]_vars

\* C9: in INSERT mode a printable character is inserted at the cursor, in REPLACE
\* mode it is written over the character under the cursor; neither changes the mode
\* or arg_count.
CharWritten(c) ==
    /\ line'.text = text_before_cursor(line) \o <<c>> \o
                        (IF vi_mode = REPLACE
                         THEN Slice(line.text, line.cursor_position + 1, Len(line.text))
                         ELSE text_after_cursor(line))
    /\ line'.cursor_position = line.cursor_position + 1
    /\ vi_mode' = vi_mode
    /\ arg_count' = arg_count
TextTyped ==
    (handler_cls = Vi /\ vi_mode \in {INSERT, REPLACE} /\ ViCharTyped
        /\ ~HasCallback(one_character_callback))
        => \A c \in TextChars : Typed(c) => CharWritten(c)
InsertAndReplaceModes == [][TextTyped]_vars
\* A character has been written over another in REPLACE mode.
CharReplaced ==
    /\ handler_cls = Vi
    /\ vi_mode = REPLACE
    /\ last_call = "insert_char"
    /\ fired = <<>>
    /\ line.undo_stack # <<>>
    /\ Len(line.text) = MaxLen

\* C10: in the Emacs handler the event N after escape is dispatched as alt_N and
\* the event after ctrl_x as ctrl_x_N, and after it neither escape_pressed nor
\* ctrl_x_pressed is set.
AltPrefixed(name) == IF escape_pressed THEN "alt_" \o name ELSE name
CtrlXPrefixed(name) == IF ctrl_x_pressed THEN "ctrl_x_" \o name ELSE name
\* Alt with a digit, or with - before any count, is the alt_digit method.
AltCharName(c) ==
    IF ~escape_pressed THEN "insert_char"
    ELSE IF IsDigit(c) \/ (c = "-" /\ IsNone(arg_count)) THEN "alt_digit"
    ELSE "alt_" \o c
PrefixedOnce ==
    (handler_cls = Emacs /\ (escape_pressed \/ ctrl_x_pressed) /\ keys_read' = keys_read + 1)
        => /\ ~escape_pressed'
           /\ ~ctrl_x_pressed'
           /\ raised' = NoSignal
           /\ \A N \in NamedKeys :
                  EmacsKeyEvent(N, KeysBounds) => last_call' = CtrlXPrefixed(AltPrefixed(N))
           /\ \A c \in AltChars \cup TextChars :
                  EmacsCharEvent(c, KeysBounds) => last_call' = CtrlXPrefixed(AltCharName(c))
PrefixAppliesOnce == [][PrefixedOnce]_vars
\* ctrl_x, ctrl_u has undone an edit.
CtrlXPrefixUsed ==
    /\ handler_cls = Emacs
    /\ last_call = "ctrl_x_ctrl_u"
    /\ ~ctrl_x_pressed

\* C11: in the Emacs handler Alt+- with no argument pending sets the argument to
\* -1, Alt+digit appends the digit in decimal to the pending argument, and after
\* any other event but the escape prefix itself the argument is none.
EmacsArgumentKey(c) == escape_pressed /\ (IsDigit(c) \/ (c = "-" /\ IsNone(arg_count)))
DecimalAppend(c) ==
    IF IsNone(arg_count) THEN (IF c = "-" THEN -1 ELSE DigitValue(c))
    ELSE IF arg_count[1] >= 0 THEN arg_count[1] * 10 + DigitValue(c)
    ELSE arg_count[1] * 10 - DigitValue(c)
EmacsArgumentRule ==
    (handler_cls = Emacs /\ keys_read' = keys_read + 1)
        => /\ \A c \in EmacsArgChars \cup EmacsTextChars :
                  EmacsCharEvent(c, EmacsBounds)
                      => IF EmacsArgumentKey(c) THEN arg_count' = Some(DecimalAppend(c))
                         ELSE arg_count' = None
           /\ \A N \in EmacsArgKeys \ {"escape"} :
                  EmacsKeyEvent(N, EmacsBounds) => arg_count' = None
NumericArgument == [][EmacsArgumentRule]_vars

\* C12: in the Emacs handler a printable character with the argument n >= 1
\* pending inserts n copies of it at the cursor, one copy with no argument pending,
\* and leaves no argument.
CopiesInserted(c, n) ==
    /\ line'.text = text_before_cursor(line) \o StrTimes(<<c>>, n) \o text_after_cursor(line)
    /\ line'.cursor_position = line.cursor_position + n
    /\ arg_count' = None
EmacsCharRepeated ==
    (handler_cls = Emacs /\ ~escape_pressed /\ ~ctrl_x_pressed /\ keys_read' = keys_read + 1)
        => \A c \in EmacsTextChars :
               EmacsCharEvent(c, EmacsBounds)
                   => IF IsNone(arg_count) THEN CopiesInserted(c, 1)
                      ELSE IF arg_count[1] >= 1 THEN CopiesInserted(c, arg_count[1])
                      ELSE TRUE
CharRepeatedByArgument == [][EmacsCharRepeated]_vars
\* escape, 2, a on the empty text: two copies, each with its undo snapshot.
TwoCopiesInserted ==
    /\ handler_cls = Emacs
    /\ keys_read = 3
    /\ last_call = "insert_char"
    /\ line.text = <<"a", "a">>
    /\ line.cursor_position = 2
    /\ Len(line.undo_stack) = 2
    /\ IsNone(arg_count)

\* C13: in the Emacs handler ctrl_b, ctrl_f, alt_b, alt_f, arrow_left and
\* arrow_right pressed with the argument n >= 1 pending move the cursor as pressing
\* the key n times with no argument does.
CursorMove(name, l) ==
    CASE name \in {"ctrl_b", "arrow_left"} -> cursor_left(l)
      [] name \in {"ctrl_f", "arrow_right"} -> cursor_right(l)
      [] name = "alt_b" -> cursor_word_back(l)
      [] name = "alt_f" -> cursor_word_forward(l)
RECURSIVE CursorMovedTimes(_, _, _)
CursorMovedTimes(name, n, l) ==
    IF n <= 0 THEN l ELSE CursorMovedTimes(name, n - 1, CursorMove(name, l))
MovedAsPressedTimes(name) ==
    /\ line'.cursor_position = CursorMovedTimes(name, arg_count[1], line).cursor_position
    /\ line'.text = line.text
EmacsMovementRepeated ==
    (handler_cls = Emacs /\ keys_read' = keys_read + 1 /\ ~ctrl_x_pressed)
        => IF IsNone(arg_count) THEN TRUE
           ELSE IF arg_count[1] < 1 THEN TRUE
           ELSE /\ \A N \in {"ctrl_b", "ctrl_f", "arrow_left", "arrow_right"} :
                       (~escape_pressed /\ EmacsKeyEvent(N, EmacsBounds))
                           => MovedAsPressedTimes(N)
                /\ \A c \in {"b", "f"} :
                       (escape_pressed /\ EmacsCharEvent(c, EmacsBounds))
                           => MovedAsPressedTimes("alt_" \o c)
MovementRepeatedByArgument == [][EmacsMovementRepeated]_vars

\* C14: in the Emacs handler a run of printable character events with no other
\* event in between produces exactly one undo entry, pushed by its first event: h,
\* e, l, l, o typed into the empty buffer and then ctrl_underscore leave the text
\* empty and the cursor at 0.
RunPushesOneEntry ==
    (handler_cls = Emacs /\ ~escape_pressed /\ ~ctrl_x_pressed /\ keys_read' = keys_read + 1)
        => \A c \in TypedChars :
               EmacsCharEvent(c, UndoBounds)
                   => IF last_call = "insert_char"
                      THEN line'.undo_stack = line.undo_stack
                      ELSE line'.undo_stack =
                               Append(line.undo_stack, <<line.text, line.cursor_position>>)
HelloUndone ==
    (handler_cls = Emacs /\ keys_read = 5 /\ line.text = <<"h", "e", "l", "l", "o">>
        /\ EmacsKeyEvent("ctrl_underscore", UndoBounds))
        => line'.text = <<>> /\ line'.cursor_position = 0
TypingUndoneAtOnce == [][RunPushesOneEntry /\ HelloUndone]_vars

\* C15: in both handlers a character insertion that does not follow a character
\* insertion pushes an undo snapshot of the state before it; in the Vi handler this
\* holds for the first character typed after escape and i, a, A or I, so that one
\* undo after it brings back the text as it was before that character.
\* The event before was a character insertion: in the Vi handler a character that
\* fired no navigation key and left the handler in INSERT or REPLACE mode.
PreviousInserted ==
    /\ last_call = "insert_char"
    /\ handler_cls = Vi => (fired = <<>> /\ vi_mode # NAVIGATION)
SnapshotPushed ==
    /\ Len(line'.undo_stack) > Len(line.undo_stack)
    /\ line'.undo_stack[Len(line.undo_stack) + 1] = <<line.text, line.cursor_position>>
UndoRestoresBefore ==
    /\ undo(line').text = line.text
    /\ undo(line').cursor_position = line.cursor_position
\* The step puts a character into the text (in incremental search it goes to the
\* search pattern).
CharacterInserted == keys_read' = keys_read + 1 /\ ~in_isearch(line) /\ line'.text # line.text
InsertionStartsUndoEntry ==
    (CharacterInserted /\ ~PreviousInserted)
        => /\ \A c \in TextChars :
                  (vi_mode \in {INSERT, REPLACE} /\ ViCharEvent(c, KeysBounds))
                      => SnapshotPushed /\ UndoRestoresBefore
           /\ \A c \in TextChars :
                  (~escape_pressed /\ ~ctrl_x_pressed /\ EmacsCharEvent(c, KeysBounds))
                      => SnapshotPushed
FirstInsertionSnapshots == [][InsertionStartsUndoEntry]_vars

\* C16: ctrl_d raises Exit only when the line is empty; on a line with text it
\* deletes the character at the cursor and raises nothing.
CtrlDPressed ==
    \/ ViKeyEvent("ctrl_d", KeysBounds)
    \/ (~escape_pressed /\ ~ctrl_x_pressed /\ EmacsKeyEvent("ctrl_d", KeysBounds))
CtrlDExitsOrDeletes ==
    (keys_read' = keys_read + 1 /\ CtrlDPressed)
        => IF line.text = <<>> THEN raised' = "Exit"
           ELSE /\ raised' = NoSignal
                /\ line'.text = delete(line).text
                /\ line'.cursor_position = line.cursor_position
ExitOnEmptyLineOnly == [][CtrlDExitsOrDeletes]_vars

\* C17: list_completions is called exactly by a tab (ctrl_i) event that comes
\* right after a tab event whose complete() returned false; a tab event after any
\* other key, and the third tab in a row, call complete() again, and no other
\* event calls either.
TabPressed ==
    \/ ViKeyEvent("ctrl_i", TabBounds)
    \/ (~escape_pressed /\ ~ctrl_x_pressed /\ EmacsKeyEvent("ctrl_i", TabBounds))
TabBeforeFoundSeveral == tab_call = <<"complete", FALSE>>
SecondTabLists ==
    (keys_read' = keys_read + 1)
        => IF TabPressed
           THEN (IF TabBeforeFoundSeveral THEN tab_call' = <<"list_completions">>
                 ELSE tab_call' # <<>> /\ tab_call'[1] = "complete")
           ELSE tab_call' = <<>>
ListOnSecondTab == [][SecondTabLists]_vars
\* tab, tab, tab: the candidates were listed by the second, the third showed the
\* next candidate.
ThirdTabCompletes ==
    /\ keys_read = 3
    /\ last_call = "ctrl_i"
    /\ tab_call = <<"complete", TRUE>>
    /\ in_completion(line)
    /\ line.completion_state[1].index = 2

-----------------------------------------------------------------------------
(* The renderer *)

\* render() has just been called once more with the render context of the render
\* before it.
RenderedUnchanged ==
    /\ renders > 0
    /\ renders' = renders + 1
    /\ render_context' = render_context

\* C18: rendering again with an unchanged render context writes to the terminal the
\* cursor-reset prologue (CURSOR_UP(cursor_line) if cursor_line is not 0, carriage
\* return, ERASE_DOWN) and nothing after it.
UnchangedRenderWritesPrologueOnly ==
    [][RenderedUnchanged => terminal'.written = Prologue(renderer)]_vars

\* The last render was one without accept or abort.
PaintedForEditing ==
    renders > 0 /\ ~(render_context.accept \/ render_context.abort)

\* The screen cell that the input-to-screen map gives for the document cursor.
MappedCursor == screen.cursor_mappings[DocumentCursor(render_context)]

\* The terminal's cursor is on the mapped cell, and cursor_line is its row.
CursorOnMappedCell ==
    terminal.cursor = MappedCursor /\ renderer.cursor_line = terminal.cursor[1]

\* C19: after every render without accept or abort the terminal's cursor is on the
\* screen cell that the input-to-screen map gives for the document cursor and
\* cursor_line is the row of the terminal's cursor counted from the first row of the
\* paint, so that the next render begins on the first row of this paint; for every
\* text, cursor position, prompt, help tokens and width.
CursorWhereMapped ==
    /\ [](PaintedForEditing => CursorOnMappedCell)
    /\ [][PaintedForEditing /\ renders' = renders + 1 => terminal'.began = 0]_vars

\* render() has just been called with accept or abort set.
RenderedEnd ==
    renders' = renders + 1 /\ (render_context'.accept \/ render_context'.abort)

\* The last render was one with accept or abort set.
PaintedEnd == renders > 0 /\ (render_context.accept \/ render_context.abort)

\* The screen is the one of the render context without its help tokens.
NoHelpOnScreen ==
    screen = get_new_screen([render_context EXCEPT !.help_tokens = <<>>], terminal.columns)

\* What was written ends with the screen contents and CRLF, with no cursor motion
\* after the contents.
ContentsThenCRLF ==
    /\ Len(terminal.written) > Len(output(screen))
    /\ terminal.written[Len(terminal.written)] = CRLF
    /\ SubSeq(terminal.written, Len(terminal.written) - Len(output(screen)),
              Len(terminal.written) - 1) = output(screen)

\* C20: a render with accept or abort set writes no help tokens, writes CRLF after the
\* screen contents and no cursor motion after them, and leaves lines_in_use = 0 and
\* cursor_line = 0; the prologue of the next render has no CURSOR_UP.
EndOfInputRendered ==
    /\ [](PaintedEnd => NoHelpOnScreen /\ ContentsThenCRLF /\ renderer = NewRenderer)
    /\ [][PaintedEnd /\ renders' = renders + 1 =>
            terminal'.written[1] = CARRIAGE_RETURN]_vars

\* An accepted or aborted input was painted over a paint whose cursor was below its
\* first row, under a prompt that has help tokens.
EndPaintedOverLines ==
    /\ PaintedEnd
    /\ render_context.help_tokens # <<>>
    /\ render_context.text # <<>>
    /\ terminal.written[1].code = "CURSOR_UP"

-----------------------------------------------------------------------------
(* The screen *)

\* The offsets of the characters of the rendered text that are not newlines.
GlyphOffsets ==
    {p \in 0..(Len(render_context.text) - 1) : render_context.text[p + 1] # "\n"}

\* The logical (row, col) of offset p of the rendered text.
LogicalPosition(p) ==
    DocumentCursor([text |-> render_context.text, cursor_position |-> p])

\* The cells of the screen, as <<y, x>>.
ScreenCells == {<<y, x>> : y \in 0..screen.y, x \in 0..(screen.columns - 1)}
WrittenCells ==
    {at \in ScreenCells : at[1] \in DOMAIN screen.buffer
                          /\ at[2] \in DOMAIN screen.buffer[at[1]]}
CellAt(at) == screen.buffer[at[1]][at[2]]

\* The cells that hold a glyph of the input.
InputCells == {at \in WrittenCells : CellAt(at).char \in RenderChars}

RowMajorBefore(a, b) == a[1] < b[1] \/ (a[1] = b[1] /\ a[2] < b[2])

\* C21: for every non-newline character of the text at logical (row, col), the
\* input-to-screen map at (row, col) is the screen cell that holds that character:
\* the map sends the characters, in their order, to the cells that hold the glyphs of
\* the input, in the order of the screen, and each cell holds the character mapped
\* to it.
InputMappedToItsCell ==
    renders > 0 =>
        /\ \A p \in GlyphOffsets :
              /\ LogicalPosition(p) \in DOMAIN screen.cursor_mappings
              /\ screen.cursor_mappings[LogicalPosition(p)] \in InputCells
              /\ CellAt(screen.cursor_mappings[LogicalPosition(p)]).char
                    = render_context.text[p + 1]
        /\ \A p \in GlyphOffsets : \A q \in GlyphOffsets :
              p < q => RowMajorBefore(screen.cursor_mappings[LogicalPosition(p)],
                                      screen.cursor_mappings[LogicalPosition(q)])
        /\ Cardinality(InputCells) = Cardinality(GlyphOffsets)

\* A double-width glyph of the second line was painted, under a second-line prefix,
\* on a row further down than its logical row.
WideGlyphWrappedAfterPrefix ==
    /\ renders > 0
    /\ render_context.second_line_prefix # <<>>
    /\ render_context.text = <<"\n", "W">>
    /\ screen.cursor_mappings[<<1, 0>>][1] > 1

\* The screen on which write_char writes the character at offset p of the text: the
\* prompt and the p characters before it have been written.
ScreenBefore(p) ==
    WriteText(PromptWritten(render_context, terminal.columns), TokenText,
              SubSeq(render_context.text, 1, p), TRUE)

\* The glyph c, written at the cursor of the screen s, ends within the right margin.
FitsAtCursor(s, c) == s.x + Max({1, wcwidth(c)}) <= s.columns

\* C22: write_char never places a glyph so that it extends past the right margin:
\* every cell of the screen is at a column x with x + width(glyph) <= columns and
\* ends before the next cell of its row begins, and a glyph of the text that would
\* not fit at the cursor is written at column 0 of the next row.
GlyphsWithinMargin ==
    renders > 0 =>
        /\ \A at \in WrittenCells : at[2] + CharWidth(CellAt(at)) <= screen.columns
        /\ \A a \in WrittenCells : \A b \in WrittenCells :
              a[1] = b[1] /\ a[2] < b[2] => a[2] + CharWidth(CellAt(a)) <= b[2]
        /\ \A p \in GlyphOffsets :
              ~FitsAtCursor(ScreenBefore(p), render_context.text[p + 1]) =>
                  screen.cursor_mappings[LogicalPosition(p)] = <<ScreenBefore(p).y + 1, 0>>

\* A double-width glyph came when one column was left on the row.
WideGlyphDidNotFit ==
    /\ renders > 0
    /\ \E p \in GlyphOffsets :
          /\ render_context.text[p + 1] \in WideChars
          /\ ScreenBefore(p).x = screen.columns - 1
          /\ CellAt(<<ScreenBefore(p).y + 1, 0>>).char \in WideChars

\* C23: in a paint with abort set every cell of the screen (prompt, second-line
\* prefix and input cells) carries the style of the aborted token, for any render
\* context, highlight regions included.
AbortedPaintIsGrayed ==
    renders > 0 /\ render_context.abort =>
        \A at \in WrittenCells : CellAt(at).style = style_for_token(TokenAborted)

-----------------------------------------------------------------------------
(* The history *)

IsPrefixOf(a, b) == Len(a) <= Len(b) /\ SubSeq(b, 1, Len(a)) = a

\* C24: a FileHistory constructed on the file after strings were appended to it, the
\* file not existing before, holds exactly those strings in their order (multi-line
\* strings, the empty string, strings ending in a newline, lines beginning with '+'
\* or '#'), and append leaves what the file held before it at the head of the file.
FileHistoryRoundTrip ==
    /\ [](~IsNone(reloaded) => reloaded[1] = file_history)
    /\ [][~IsNone(history_file) /\ history_file' # history_file =>
            IsPrefixOf(history_file[1], history_file'[1])]_vars

\* The string "+", newline and the empty string were appended and loaded again.
PlusLineAndEmptyReloaded ==
    /\ ~IsNone(reloaded)
    /\ file_history = << <<"+", "\n">>, <<>> >>
    /\ Len(reloaded[1]) = 2

-----------------------------------------------------------------------------
(* The Python REPL *)

\* newline() of the PythonLine has just been called.
NewlineInserted == keys_read' = keys_read + 1 /\ line'.text # line.text

\* The whitespace at the head of the string s.
RECURSIVE LeadingWhitespace(_)
LeadingWhitespace(s) ==
    IF s # <<>> /\ IsSpace(Head(s)) THEN <<Head(s)>> \o LeadingWhitespace(Tail(s))
    ELSE <<>>

\* A newline, the leading whitespace of the line and, if the line ends with ':', four
\* spaces more.
NewlineAndIndent(current) ==
    <<"\n">> \o LeadingWhitespace(current)
    \o (IF current # <<>> /\ current[Len(current)] = ":" THEN <<" ", " ", " ", " ">>
        ELSE <<>>)

\* C25: newline() of the PythonLine, with paste mode off and nothing after the cursor
\* on the current line, inserts at the cursor a newline, the leading whitespace of the
\* current line and, if that line ends with ':', four more spaces, and leaves the
\* cursor at the end of what it inserted.
NewlineIndents ==
    [][NewlineInserted /\ ~paste_mode /\ current_line_after_cursor(line) = <<>> =>
        /\ line'.text = text_before_cursor(line) \o NewlineAndIndent(current_line(line))
                          \o text_after_cursor(line)
        /\ line'.cursor_position
             = line.cursor_position + Len(NewlineAndIndent(current_line(line)))]_vars

\* The columns of the first line of the input whose cell carries the error style.
ErrorColumns ==
    {col \in 0..(Len(render_context.text) - 1) :
        CellAt(screen.cursor_mappings[<<0, col>>]).style = style_for_token(TokenError)}

BracketScenario == <<"(", "[", ")", "]">>

\* C26 as stated: painted from the tokens of the code adapter over "([)]", the cells
\* of columns 2 and 3 of the input carry the error style and no other column does.
ErrorAtColumnsTwoAndThree ==
    renders > 0 /\ render_context.text = BracketScenario => ErrorColumns = {2, 3}

\* C26: painted from the tokens of the code adapter over "([)]", the cells of columns
\* 0 and 2 of the input (the "(" that is left open and the ")" that does not match
\* the "[") carry the error style and no other column does.
ErrorAtColumnsZeroAndTwo ==
    renders > 0 /\ render_context.text = BracketScenario => ErrorColumns = {0, 2}

\* "([)]" was painted.
BracketScenarioPainted ==
    renders > 0 /\ render_context.text = BracketScenario /\ ErrorColumns # {}

-----------------------------------------------------------------------------
(* The history of the Line *)

\* The events of the session so far, and what it started with.
SessionEvents == [i \in 1..(Len(session.log) - 1) |-> session.log[i + 1].event]
SessionStarted(t, cp) ==
    session.logged /\ session.log[1].text = t /\ session.log[1].cursor_position = cp

UpUpDown == SessionEvents = << <<"ctrl_p">>, <<"ctrl_p">>, <<"ctrl_n">> >>

\* C27 as stated: with the history ["alpha", "beta", "algol"], the text "al" and the
\* cursor at 2, the events ctrl_p, ctrl_p, ctrl_n leave the text "alpha".
UpUpDownShowsAlpha ==
    SessionStarted(BrowseText, 2) /\ UpUpDown => line.text = BrowseHistory[1]

\* C27: with the history ["alpha", "beta", "algol"], the text "al" and the cursor at
\* 2, the events ctrl_p, ctrl_p, ctrl_n leave the text "algol": ctrl_p shows "algol",
\* ctrl_p shows "alpha", and ctrl_n goes forward again to "algol".
UpUpDownShowsAlgol ==
    /\ SessionStarted(BrowseText, 2) /\ SessionEvents = << <<"ctrl_p">> >>
           => line.text = BrowseHistory[3]
    /\ SessionStarted(BrowseText, 2) /\ SessionEvents = << <<"ctrl_p">>, <<"ctrl_p">> >>
           => line.text = BrowseHistory[1]
    /\ SessionStarted(BrowseText, 2) /\ UpUpDown => line.text = BrowseHistory[3]

\* ctrl_p, ctrl_p, ctrl_n have been handled.
UpUpDownHandled == SessionStarted(BrowseText, 2) /\ UpUpDown /\ line.text # BrowseText

\* The calls of history_backward and history_forward the session ends with, since
\* the last edit: RunStart is the place of the first of them in the log.
BrowseEvent(e) == e \in {<<name>> : name \in BrowseKeys}
BrowsedSince(k) == \A j \in k..Len(session.log) : BrowseEvent(session.log[j].event)
Browsed == Len(session.log) > 1 /\ BrowseEvent(session.log[Len(session.log)].event)
RunStart == CHOOSE k \in 2..Len(session.log) : BrowsedSince(k) /\ ~BrowsedSince(k - 1)
\* text_before_cursor when the first of these calls was made
OriginalPrefix ==
    Slice(session.log[RunStart - 1].text, 0, session.log[RunStart - 1].cursor_position)

\* C28: after any number of calls of history_backward and history_forward (ctrl_p,
\* ctrl_n, page_up, page_down) with no edit in between, text_before_cursor starts
\* with the text that was before the cursor when the first of them was made.
BrowsingKeepsPrefix ==
    session.logged /\ Browsed => StartsWith(text_before_cursor(line), OriginalPrefix)

\* After an edit left "a" before the cursor, three calls have gone up twice and down
\* again.
BrowsedUpAndDownAfterEdit ==
    /\ session.logged /\ Browsed
    /\ RunStart = 3 /\ Len(session.log) = 5
    /\ session.log[2].event = <<"ctrl_h">>
    /\ OriginalPrefix = <<"a">>
    /\ session.log[4].text = BrowseHistory[1]
    /\ line.text = BrowseHistory[3]

\* The session ends with: incremental search entered by the event at k of the log
\* (ctrl_r or ctrl_s, the Line not searching before it), pattern characters typed,
\* ctrl_g.
SearchEntered(k) ==
    /\ session.log[k].event \in {<<"ctrl_r">>, <<"ctrl_s">>}
    /\ ~session.log[k - 1].searching
    /\ session.log[k].searching
PatternTyped(k) ==
    \A j \in (k + 1)..(Len(session.log) - 1) : session.log[j].event[1] = "insert_char"
SearchedAndLeft(k) ==
    /\ SearchEntered(k)
    /\ PatternTyped(k)
    /\ session.log[Len(session.log)].event = <<"ctrl_g">>
RestoredFrom(e) ==
    /\ line.text = e.text
    /\ line.cursor_position = e.cursor_position
    /\ ~in_isearch(line)
SearchCancelled ==
    SessionEvents = << <<"ctrl_r">>, <<"insert_char", "a">>, <<"ctrl_g">> >>

\* C29: entering incremental search (ctrl_r or ctrl_s), typing pattern characters
\* and leaving with ctrl_g restores the text and the cursor to what they were at
\* the entry and leaves isearch_state none; with the history ["banana", "apple"],
\* the text "hello" and the cursor at 5, ctrl_r, a, ctrl_g end with "hello" and 5.
CtrlGRestoresLine ==
    /\ session.logged =>
           \A k \in 2..(Len(session.log) - 1) :
               SearchedAndLeft(k) => RestoredFrom(session.log[k - 1])
    /\ SessionStarted(SearchText, 5) /\ SearchCancelled
           => line.text = SearchText /\ line.cursor_position = 5 /\ ~in_isearch(line)

\* ctrl_r, a, ctrl_g: the search had shown "apple" when ctrl_g was pressed.
CancelledOnApple ==
    /\ SessionStarted(SearchText, 5) /\ SearchCancelled
    /\ session.log[3].text = SearchHistory[2] /\ session.log[3].searching
    /\ line.text = SearchText

-----------------------------------------------------------------------------
(* Undo *)

LogPair(i) == <<session.log[i].text, session.log[i].cursor_position>>
\* The event at j of the log called undo: ctrl_underscore or ctrl_x ctrl_u in the
\* Emacs handler, u in the navigation mode of the Vi handler.
UndoCalled(j) ==
    \/ session.log[j].call \in {"ctrl_underscore", "ctrl_x_ctrl_u"}
    \/ session.log[j].fired = << <<"u">> >>
\* It had a snapshot to restore.
UndoRestored(j) == UndoCalled(j) /\ session.log[j].undo_depth < session.log[j - 1].undo_depth
\* The event at j left the text, the cursor and the undo stack as they were.
BufferKept(j) ==
    LogPair(j) = LogPair(j - 1) /\ session.log[j].undo_depth = session.log[j - 1].undo_depth
\* The successive undos the session ends with (with the prefix keys between them):
\* UndoRunStart is the place of the first of them in the log.
UndoingSince(k) == \A j \in k..Len(session.log) : UndoCalled(j) \/ BufferKept(j)
UndoRunStart ==
    CHOOSE k \in 2..(Len(session.log) + 1) : UndoingSince(k) /\ (k = 2 \/ ~UndoingSince(k - 1))
\* The latest moment before `bound` at which the buffer held the pair p; 0 if none.
LatestHeld(p, bound) == Max({0} \cup {i \in 1..(bound - 1) : LogPair(i) = p})
\* From the event at j on, every undo that restores sets the buffer to a pair held
\* before `bound`, each one to an earlier moment than the one before it; an undo
\* with nothing to restore changes nothing.
RECURSIVE WalksBack(_, _)
WalksBack(j, bound) ==
    IF j > Len(session.log) THEN TRUE
    ELSE IF UndoRestored(j)
    THEN /\ LatestHeld(LogPair(j), bound) >= 1
         /\ WalksBack(j + 1, LatestHeld(LogPair(j), bound))
    ELSE IF UndoCalled(j) THEN LogPair(j) = LogPair(j - 1) /\ WalksBack(j + 1, bound)
    ELSE WalksBack(j + 1, bound)

-----------------------------------------------------------------------------
(* get_input *)

\* The event of this step was read by get_input.
InputEventRead == returned = <<>> /\ keys_read' = keys_read + 1

\* C31: get_input returns None when Ctrl-D was pressed (on the empty line, where it
\* raises Exit), and returns the entered text when the input is accepted.
NoneOnCtrlD ==
    [][InputEventRead
        => /\ (raised' = "Exit" => returned' = Returns(None))
           /\ (raised' = "ReturnInput" => returned' = Returns(Some(line.text)))]_vars

-----------------------------------------------------------------------------
(* The Python handlers *)

\* The event the handler read last, <<>> before the first.
LastEvent == session.log[Len(session.log)].event

\* The Python handler reads an event.
ReplEventRead == keys_read' = keys_read + 1 /\ session'.log # session.log

\* The event just read put a newline at the cursor and left the text before it alone.
NewlineAtCursor ==
    /\ Len(line'.text) > Len(line.text)
    /\ line'.text[line.cursor_position + 1] = "\n"
    /\ text_before_cursor(line) = Slice(line'.text, 0, line.cursor_position)

\* C32: while multiline is on, an enter event (not the enter of escape, enter) inserts a
\* newline and does not raise ReturnInput, and ReturnInput is raised only by enter
\* right after escape.
EnterInsertsNewlineInMultiline ==
    [][(ReplEventRead /\ multiline)
        => /\ (LastEvent' = <<"enter">> /\ LastEvent # <<"escape">>
                 => raised' # "ReturnInput" /\ NewlineAtCursor)
           /\ (raised' = "ReturnInput"
                 => LastEvent' = <<"enter">> /\ LastEvent = <<"escape">>)]_vars

\* The closing bracket that matches an opening one.
ClosingOf(c) == IF c = "(" THEN ")" ELSE IF c = "[" THEN "]" ELSE "}"

\* The text before the cursor holds, outside quoted strings, an opening bracket with no
\* matching closing bracket after it.
OpenBracketLeft(l) ==
    LET s == StripQuoted(text_before_cursor(l))
    IN  \E i \in 1..Len(s) :
            /\ s[i] \in {"(", "[", "{"}
            /\ \A j \in (i + 1)..Len(s) : s[j] # ClosingOf(s[i])

\* The Python Emacs handler reads enter (not the enter of escape, enter) with the cursor
\* at the end of the text.
EmacsEnterAtEnd ==
    /\ ReplEventRead
    /\ handler_cls = PythonEmacs
    /\ LastEvent' = <<"enter">>
    /\ LastEvent # <<"escape">>
    /\ cursor_at_the_end(line)

\* C40: in the Python Emacs handler, enter at the end of a text that ends with ':' or a
\* backslash, or that holds an unmatched opening bracket outside quoted strings, turns
\* multiline on and inserts a newline, and does not raise ReturnInput.
EnterContinuesTheStatement ==
    [][(EmacsEnterAtEnd
          /\ (colon_before_cursor(line) \/ backslash_before_cursor(line) \/ OpenBracketLeft(line)))
        => raised' # "ReturnInput" /\ multiline' /\ NewlineAtCursor]_vars

-----------------------------------------------------------------------------
(* Dispatch *)

\* What a call of a handler may end in: it returns, or one of the three signals escapes.
Signals == {NoSignal, "ReturnInput", "Abort", "Exit"}

\* The name the event ev is looked up under has no bound method.
UnboundVi(ev) == ev[1] \notin ViMethodNames
UnboundEmacs(ev) == EmacsComposedEvent(ev, Handler)[1] \notin EmacsMethodNames

\* A handler reads an event whose (composed) name has no bound method.
UnboundDispatched ==
    \/ \E name \in NamedKeys : UnboundVi(<<name>>) /\ ViKeyEvent(name, KeysBounds)
    \/ \E name \in NamedKeys : UnboundEmacs(<<name>>) /\ EmacsKeyEvent(name, KeysBounds)
    \/ \E c \in AltChars \cup TextChars :
           UnboundEmacs(<<"insert_char", c>>) /\ EmacsCharEvent(c, KeysBounds)

\* C33: every call of a handler returns or raises ReturnInput, Abort or Exit, and a call
\* under a name with no bound method leaves the text and the cursor alone.
DispatchNeverFails ==
    [][/\ (keys_read' = keys_read + 1 => raised' \in Signals)
       /\ (UnboundDispatched
             => /\ raised' = NoSignal
                /\ line'.text = line.text
                /\ line'.cursor_position = line.cursor_position)]_vars

\* A character typed after ctrl_x went under the name ctrl_x_insert_char, and an
\* escape typed after ctrl_x under ctrl_x_escape.
UnboundNamesDispatched ==
    /\ handler_cls = Emacs
    /\ last_call \in {"ctrl_x_insert_char", "ctrl_x_escape"}
    /\ raised = NoSignal

-----------------------------------------------------------------------------
(* The clipboard of the Vi commands *)

LinewiseKeys == {<<"y", "y">>, <<"d", "d">>}
CharacterwiseKeys ==
    {<<"x">>, <<"s">>, <<"D">>, <<"C">>, <<"c", "$">>, <<"d", "$">>, <<"c", "w">>,
     <<"c", "e">>, <<"d", "w">>}

\* C34: in navigation mode yy and dd leave a clipboard of type LINES, and x, s, D, C, c$,
\* d$, cw, ce and dw one of type CHARACTERS.
ClipboardTypeOfCommand ==
    [][/\ (\E k \in LinewiseKeys : fired' = <<k>>) => line'.clipboard.type = LINES
       /\ (\E k \in CharacterwiseKeys : fired' = <<k>>) => line'.clipboard.type = CHARACTERS]_vars

\* dd has cut a line into the clipboard.
LineCutByDD ==
    /\ fired = << <<"d", "d">> >>
    /\ line.clipboard.type = LINES
    /\ line.clipboard.data # <<>>

-----------------------------------------------------------------------------
(* t and a character *)

\* The places of c on the current line after the cursor.
LaterOccurrences(l, c) ==
    {p \in (l.cursor_position + 1)..(LineEnd(l) - 1) : l.text[p + 1] = c}

\* t was typed without a count and the character c comes next.
CharReadAfterT(c) ==
    /\ one_character_callback = Callback("t", 1)
    /\ ViCharEvent(c, SpecBounds)

\* C39: t and a character c leave the cursor right before the next c after the cursor on
\* the current line, and where it was when there is none.
TStopsBeforeTheCharacter ==
    [][\A c \in TextChars :
          CharReadAfterT(c)
            => line'.cursor_position =
                  IF LaterOccurrences(line, c) # {} THEN Min(LaterOccurrences(line, c)) - 1
                  ELSE line.cursor_position]_vars

-----------------------------------------------------------------------------
(* The two prefixes of the Emacs handler *)

NoPrefixPending == ~escape_pressed /\ ~ctrl_x_pressed

\* C38: the Emacs handler never has escape_pressed and ctrl_x_pressed set together:
\* ctrl_x after escape is called as alt_ctrl_x and escape after ctrl_x as ctrl_x_escape,
\* and neither leaves a flag set.
PrefixesNeverBothPending ==
    [][handler_cls = Emacs
        => /\ ~(escape_pressed' /\ ctrl_x_pressed')
           /\ (escape_pressed /\ EmacsKeyEvent("ctrl_x", KeysBounds))
                 => (last_call' = "alt_ctrl_x" /\ NoPrefixPending')
           /\ (ctrl_x_pressed /\ EmacsKeyEvent("escape", KeysBounds))
                 => (last_call' = "ctrl_x_escape" /\ NoPrefixPending')]_vars

\* ctrl_x came while escape was pending.
CtrlXAfterEscape ==
    /\ handler_cls = Emacs
    /\ last_call = "alt_ctrl_x"
    /\ NoPrefixPending

-----------------------------------------------------------------------------
(* The reset on ReturnInput and Abort *)

\* The state _reset leaves the handler in.
HandlerReset ==
    /\ IsNone(arg_count)
    /\ ~second_tab
    /\ last_call = NoCall
    /\ NoPrefixPending
    /\ vi_mode = INSERT
    /\ one_character_callback = NoneCallback

\* The character c is read right after an accepted or aborted input.
CharReadAfterInput(c) ==
    /\ raised \in {"ReturnInput", "Abort"}
    /\ (ViCharEvent(c, KeysBounds) \/ EmacsCharEvent(c, KeysBounds))

\* The event just read put c at the cursor and pushed the buffer it found on the undo
\* stack.
TypedWithSnapshot(c) ==
    /\ line'.text = text_before_cursor(line) \o <<c>> \o text_after_cursor(line)
    /\ line'.cursor_position = line.cursor_position + 1
    /\ line'.undo_stack = Append(line.undo_stack, <<line.text, line.cursor_position>>)

\* C35: a call that raises ReturnInput or Abort leaves the handler reset, and the first
\* character after it is inserted as text and pushes an undo snapshot.
ResetBeforeSignal ==
    [][/\ raised' \in {"ReturnInput", "Abort"} => HandlerReset'
       /\ \A c \in TextChars : CharReadAfterInput(c) => TypedWithSnapshot(c)]_vars

\* A character typed into the Vi handler on the fresh Line of the input after an
\* accepted or aborted one.
TypedAfterInputEnded ==
    /\ handler_cls = Vi
    /\ keys_read = 3
    /\ last_call = "insert_char"
    /\ vi_mode = INSERT
    /\ line.text = <<"a">>
    /\ line.undo_stack = << <<<<>>, 0>> >>

-----------------------------------------------------------------------------
(* The input-to-screen map *)

\* The (row, col) of every character of the text of ctx and of the end of the text.
InputPositions(ctx) ==
    {DocumentCursor([ctx EXCEPT !.cursor_position = i]) : i \in 0..Len(ctx.text)}

\* The screen of the last render when the prompt and the code had been written.
ScreenOfTheCode ==
    CodeWritten(render_context, PromptWritten(render_context, terminal.columns))

\* C36: the input-to-screen map has an entry for every character of the text and for the
\* end of the text and no other, and what is written after the code (the help tokens)
\* adds or changes no entry.
OnlyInputIsMapped ==
    renders > 0
        => /\ DOMAIN screen.cursor_mappings = InputPositions(render_context)
           /\ screen.cursor_mappings = ScreenOfTheCode.cursor_mappings

\* The amounts of the CURSOR_UP codes of what the last render wrote.
CursorUpAmounts ==
    {terminal.written[i].n :
        i \in {j \in 1..Len(terminal.written) : terminal.written[j].code = "CURSOR_UP"}}

\* C37: the screen of a render has an input-to-screen entry for the (row, col) of the
\* cursor, on a screen row that is not below the row the writing ended on, and no
\* CURSOR_UP of a render has a negative amount.
CursorIsMapped ==
    renders > 0
        => /\ DocumentCursor(render_context) \in DOMAIN screen.cursor_mappings
           /\ MappedCursor[1] <= screen.y
           /\ \A n \in CursorUpAmounts : n > 0

\* A render for editing whose cursor is on a row above the one the writing ended on.
CursorAboveTheLastRow ==
    /\ PaintedForEditing
    /\ MappedCursor[1] < screen.y
    /\ CURSOR_UP(screen.y - MappedCursor[1]) \in {terminal.written[i] : i \in 1..Len(terminal.written)}
====
